---- MODULE Spec2Model ----
(***************************************************************************)
(* The query pipeline of the Situation Room Agent                          *)
(* (backend/app/services/rag_pipeline.py) together with the session        *)
(* dependency that commits its audit entry (backend/app/database.py).      *)
(*                                                                         *)
(* Text is modelled by TLA+ strings, character by character: Len, SubSeq   *)
(* and \o are Python's len, slicing and +.  Confidence scores are in       *)
(* hundredths (75 is 0.75), distances in hundredths of a kilometre.        *)
(***************************************************************************)
EXTENDS Integers, Sequences, FiniteSets, TLC

\* ------------------------------------------------------------------ bounds

\* Longest query text, in words of Vocabulary, of the classification harness.
MaxWords == 2

\* ------------------------------------------------------------------ strings

UpperLetters == "ABCDEFGHIJKLMNOPQRSTUVWXYZ"

LowerLetters == "abcdefghijklmnopqrstuvwxyz"

Digits == "0123456789"

\* s[i] as a string of length one.
CharAt(s, i) == SubSeq(s, i, i)

\* The position of the character c in the string s, 0 when it is absent.
IndexOf(s, c) ==
    IF \E i \in 1..Len(s) : CharAt(s, i) = c
    THEN CHOOSE i \in 1..Len(s) : CharAt(s, i) = c
    ELSE 0

IsLetter(c) == IndexOf(UpperLetters, c) > 0 \/ IndexOf(LowerLetters, c) > 0

IsDigit(c) == Len(c) = 1 /\ IndexOf(Digits, c) > 0

\* The characters the regular expression class \s matches.
IsSpace(c) == c \in {" ", "\t", "\n"}

LowerChar(c) ==
    IF IndexOf(UpperLetters, c) > 0
    THEN CharAt(LowerLetters, IndexOf(UpperLetters, c))
    ELSE c

UpperChar(c) ==
    IF IndexOf(LowerLetters, c) > 0
    THEN CharAt(UpperLetters, IndexOf(LowerLetters, c))
    ELSE c

RECURSIVE lower(_)
\* str.lower()
lower(s) == IF s = "" THEN "" ELSE LowerChar(CharAt(s, 1)) \o lower(Tail(s))

RECURSIVE TitleFrom(_, _)
TitleFrom(s, i) ==
    IF i > Len(s) THEN ""
    ELSE (IF i = 1 \/ ~IsLetter(CharAt(s, i - 1))
          THEN UpperChar(CharAt(s, i))
          ELSE LowerChar(CharAt(s, i))) \o TitleFrom(s, i + 1)

\* str.title(): a letter is upper case after a non-letter, lower case otherwise.
title(s) == TitleFrom(s, 1)

\* Python's `kw in s` on strings.
Contains(s, kw) ==
    \E i \in 1..(Len(s) - Len(kw) + 1) : SubSeq(s, i, i + Len(kw) - 1) = kw

RECURSIVE ReplaceChar(_, _, _)
\* str.replace(a, b) for single characters a and b.
ReplaceChar(s, a, b) ==
    IF s = "" THEN ""
    ELSE (IF CharAt(s, 1) = a THEN b ELSE CharAt(s, 1)) \o ReplaceChar(Tail(s), a, b)

\* The number of digits of the string, not its value.
ParseIntCountsDigits(s) == Len(s)

RECURSIVE ParseInt(_)
\* int() of a string of decimal digits.
ParseInt(s) ==
    IF s = "" THEN 0
    ELSE 10 * ParseInt(SubSeq(s, 1, Len(s) - 1)) + (IndexOf(Digits, CharAt(s, Len(s))) - 1)

RECURSIVE Str(_)
\* str() of a non-negative integer.
Str(n) == IF n < 10 THEN CharAt(Digits, n + 1)
          ELSE Str(n \div 10) \o CharAt(Digits, (n % 10) + 1)

RECURSIVE Join(_, _)
\* sep.join(parts)
Join(sep, parts) ==
    IF Len(parts) = 0 THEN ""
    ELSE IF Len(parts) = 1 THEN parts[1]
    ELSE parts[1] \o sep \o Join(sep, Tail(parts))

\* ------------------------------------------------------------------ classification

\* The keys of QUERY_TYPES in the dictionary's insertion order.
Categories ==
    <<"facility_search", "resource_search", "status_query", "geographic_search",
      "statistical">>

CategorySet == {Categories[i] : i \in 1..Len(Categories)}

\* The Arabic keywords are written as bracketed ASCII transliterations: they
\* are not substrings of any text over the Latin alphabet used here.
QUERY_TYPES ==
    [facility_search |->
        <<"hospital", "clinic", "health center", "pharmacy", "facility",
          "medical", "trauma", "icu", "emergency department", "ed",
          "[mustashfa]", "[iyada]", "[saydaliya]">>,
     resource_search |->
        <<"ambulance", "shelter", "supply", "distribution", "water",
          "food", "medicine", "equipment", "[isaaf]", "[mawa]">>,
     status_query |->
        <<"status", "operational", "power", "oxygen", "water supply",
          "capacity", "beds", "available", "wait time", "[hala]">>,
     geographic_search |->
        <<"nearest", "closest", "within", "near", "km", "distance",
          "route", "direction", "map", "area", "zone", "[alaqrab]">>,
     statistical |->
        <<"how many", "total", "count", "percentage", "average",
          "distribution", "summary", "statistics", "[kam adad]">>]

RECURSIVE CountHits(_, _)
\* sum(1 for kw in keywords if kw in query_lower)
CountHits(keywords, query_lower) ==
    IF Len(keywords) = 0 THEN 0
    ELSE (IF Contains(query_lower, Head(keywords)) THEN 1 ELSE 0)
         + CountHits(Tail(keywords), query_lower)

\* The scores dictionary of classify_query.
Scores(query) ==
    [qtype \in CategorySet |-> CountHits(QUERY_TYPES[qtype], lower(query))]

\* max() keeps the first key whose value no later key exceeds strictly.
MaxKeyLastWins(scores, i, best) == scores[Categories[i]] >= scores[best]

MaxKeyReplaces(scores, i, best) == scores[Categories[i]] > scores[best]

RECURSIVE MaxKeyFrom(_, _, _)
MaxKeyFrom(scores, i, best) ==
    IF i > Len(Categories) THEN best
    ELSE MaxKeyFrom(scores, i + 1,
                    IF MaxKeyReplaces(scores, i, best) THEN Categories[i] ELSE best)

\* max(scores, key=scores.get)
MaxKey(scores) == MaxKeyFrom(scores, 2, Categories[1])

DefaultCategoryUnknown == "unknown"

\* The category classify_query returns when no keyword occurs.
DefaultCategory == "facility_search"

classify_query(query) ==
    LET scores == Scores(query)
        best == MaxKey(scores)
    IN IF scores[best] > 0 THEN best ELSE DefaultCategory

\* ------------------------------------------------------------------ entity extraction

\* FacilityType, in declaration order (the order `for ft in FacilityType` visits).
FacilityType == <<"hospital", "clinic", "pharmacy", "field_hospital", "health_center">>

FacilityStatus == <<"operational", "reduced_capacity", "damaged", "offline">>

\* ResourceType, in declaration order.
ResourceType ==
    <<"ambulance", "medical_supply", "shelter", "distribution_point", "water_point">>

ResourceStatus == <<"available", "in_use", "depleted", "maintenance">>

IncidentSeverity == <<"low", "medium", "high", "critical">>

westbank_districts ==
    <<"ramallah", "al-bireh", "nablus", "hebron", "al-khalil", "bethlehem",
      "jenin", "tulkarm", "qalqilya", "salfit", "tubas", "jericho",
      "jerusalem", "huwara", "beit jala", "beit sahour", "dura",
      "yatta", "azzun", "anabta", "silwad", "birzeit", "al-aghwar">>

StatusWordsWithoutOpen == <<"functional", "operational", "working">>

StatusWords == <<"functional", "operational", "working", "open">>

CapacityWords == <<"people", "person", "capacity", "beds", "bed">>

RECURSIVE DigitRunEnd(_, _)
\* The first position at or after i that holds no digit: where a greedy \d+
\* started at i stops.
DigitRunEnd(s, i) ==
    IF i <= Len(s) /\ IsDigit(CharAt(s, i)) THEN DigitRunEnd(s, i + 1) ELSE i

RECURSIVE SkipSpaces(_, _)
\* Where a greedy \s* started at i stops.
SkipSpaces(s, i) ==
    IF i <= Len(s) /\ IsSpace(CharAt(s, i)) THEN SkipSpaces(s, i + 1) ELSE i

\* s.startswith(w, i - 1)
StartsWithAt(s, i, w) == i + Len(w) - 1 <= Len(s) /\ SubSeq(s, i, i + Len(w) - 1) = w

\* (\d+)\s*km matches at position i.
DistMatchAt(s, i) ==
    /\ IsDigit(CharAt(s, i))
    /\ StartsWithAt(s, SkipSpaces(s, DigitRunEnd(s, i)), "km")

\* (\d+)\s*(?:people|person|capacity|beds|bed), without the optional plus sign.
CapMatchAtNoPlus(s, i) ==
    /\ IsDigit(CharAt(s, i))
    /\ LET m == SkipSpaces(s, DigitRunEnd(s, i))
       IN \E w \in 1..Len(CapacityWords) : StartsWithAt(s, m, CapacityWords[w])

\* (\d+)\+?\s*(?:people|person|capacity|beds|bed) matches at position i.
CapMatchAt(s, i) ==
    /\ IsDigit(CharAt(s, i))
    /\ LET j == DigitRunEnd(s, i)
           k == IF StartsWithAt(s, j, "+") THEN j + 1 ELSE j
           m == SkipSpaces(s, k)
       IN \E w \in 1..Len(CapacityWords) : StartsWithAt(s, m, CapacityWords[w])

\* re.search: the leftmost position where the pattern matches, 0 when none.
SearchDistLast(s) ==
    IF \E i \in 1..Len(s) : DistMatchAt(s, i)
    THEN CHOOSE i \in 1..Len(s) :
            /\ DistMatchAt(s, i) /\ (i = 1 \/ ~IsDigit(CharAt(s, i - 1)))
            /\ \A j \in (DigitRunEnd(s, i))..Len(s) : ~DistMatchAt(s, j)
    ELSE 0

SearchDist(s) ==
    IF \E i \in 1..Len(s) : DistMatchAt(s, i)
    THEN CHOOSE i \in 1..Len(s) :
            DistMatchAt(s, i) /\ \A j \in 1..(i - 1) : ~DistMatchAt(s, j)
    ELSE 0

SearchCap(s) ==
    IF \E i \in 1..Len(s) : CapMatchAt(s, i)
    THEN CHOOSE i \in 1..Len(s) :
            CapMatchAt(s, i) /\ \A j \in 1..(i - 1) : ~CapMatchAt(s, j)
    ELSE 0

\* match.group(1): the digits the match starts with.
Group1(s, i) == SubSeq(s, i, DigitRunEnd(s, i) - 1)

\* A dictionary with one key.
Entry(key, value) == key :> value

\* The dictionary d after d[key] = value.
Put(d, key, value) ==
    [k \in (DOMAIN d) \cup {key} |-> IF k = key THEN value ELSE d[k]]

\* The empty dictionary.
EmptyDict == [k \in {} |-> 0]

\* The first value that occurs in the text is assigned, later ones are not.
AssignFirstMatch(d, key, values, i, query_lower) ==
    LET found == {j \in 1..Len(values) :
                     Contains(query_lower, ReplaceChar(values[j], "_", " "))}
    IN IF found = {} THEN d
       ELSE Put(d, key, values[CHOOSE j \in found : \A k \in found : j <= k])

RECURSIVE AssignEachMatch(_, _, _, _, _)
\* for v in values: if v.replace("_", " ") in query_lower: entities[key] = v
AssignEachMatch(d, key, values, i, query_lower) ==
    IF i > Len(values) THEN d
    ELSE AssignEachMatch(
            IF Contains(query_lower, ReplaceChar(values[i], "_", " "))
            THEN Put(d, key, values[i]) ELSE d,
            key, values, i + 1, query_lower)

\* The district is always stored, as the empty string when none is named.
AssignDistrictOrEmpty(d, i, query_lower) ==
    LET found == {j \in 1..Len(westbank_districts) :
                     Contains(query_lower, westbank_districts[j])}
    IN IF found = {} THEN Put(d, "district", "")
       ELSE Put(d, "district",
                title(westbank_districts[CHOOSE j \in found : \A k \in found : k <= j]))

RECURSIVE AssignEachDistrict(_, _, _)
\* for dist in westbank_districts: if dist in query_lower: entities["district"] = dist.title()
AssignEachDistrict(d, i, query_lower) ==
    IF i > Len(westbank_districts) THEN d
    ELSE AssignEachDistrict(
            IF Contains(query_lower, westbank_districts[i])
            THEN Put(d, "district", title(westbank_districts[i])) ELSE d,
            i + 1, query_lower)

extract_entities(query) ==
    LET q == lower(query)
        e1 == IF SearchDist(q) > 0
              THEN Put(EmptyDict, "radius_km", ParseInt(Group1(q, SearchDist(q))))
              ELSE EmptyDict
        e2 == IF SearchCap(q) > 0
              THEN Put(e1, "min_capacity", ParseInt(Group1(q, SearchCap(q))))
              ELSE e1
        e3 == AssignEachMatch(e2, "facility_type", FacilityType, 1, q)
        e4 == IF Contains(q, "hospital") /\ "facility_type" \notin DOMAIN e3
              THEN Put(e3, "facility_type", "hospital")
              ELSE e3
        e5 == AssignEachMatch(e4, "resource_type", ResourceType, 1, q)
        e6 == IF \E w \in 1..Len(StatusWords) : Contains(q, StatusWords[w])
              THEN Put(e5, "status", "operational")
              ELSE e5
        e7 == IF Contains(q, "oxygen") THEN Put(e6, "needs_oxygen", TRUE) ELSE e6
        e8 == IF Contains(q, "power") \/ Contains(q, "electricity")
              THEN Put(e7, "needs_power", TRUE)
              ELSE e7
        e9 == IF Contains(q, "trauma") THEN Put(e8, "needs_trauma", TRUE) ELSE e8
    IN AssignEachDistrict(e9, 1, q)

\* entities.get(key) is truthy: the key is present and its value is neither 0
\* nor False nor the empty string.
Truthy(d, key) ==
    /\ key \in DOMAIN d
    /\ IF key \in {"radius_km", "min_capacity"} THEN d[key] # 0
       ELSE IF key \in {"needs_oxygen", "needs_power", "needs_trauma"} THEN d[key]
       ELSE d[key] # ""

\* ------------------------------------------------------------------ retrieval

\* An Optional value: <<>> is None, <<v>> is the value v.
None == <<>>

Some(v) == <<v>>

\* The distance, in metres, between two coordinates one grid step apart.
\* Coordinates are points of an integer grid; no distance is a half of a
\* hundredth of a kilometre, so round(dist, 2) has one value.
GridStepM == 2502

Abs(n) == IF n < 0 THEN -n ELSE n

\* geodesic((lat1, lon1), (lat2, lon2)), in metres.
geodesic(lat1, lon1, lat2, lon2) == GridStepM * (Abs(lat1 - lat2) + Abs(lon1 - lon2))

\* round(dist, 2) of a distance given in metres: hundredths of a kilometre.
round2(metres) == (metres + 5) \div 10

\* A number of kilometres in hundredths of a kilometre.
Km(n) == 100 * n

\* The radius used when the entities hold none.
DefaultRadiusKm == 50

\* The sort key of a record that carries no distance.
MissingDistanceKm == 99999

\* x.get("distance_km", default), in hundredths of a kilometre.
GetDistance(x, default) == IF "distance_km" \in DOMAIN x THEN x.distance_km ELSE default

RadiusIgnoresEntities(entities) == Km(DefaultRadiusKm)

\* entities.get("radius_km", 50), in hundredths of a kilometre.
Radius(entities) ==
    IF "radius_km" \in DOMAIN entities THEN Km(entities.radius_km) ELSE Km(DefaultRadiusKm)

\* The rows of a sequence that satisfy a predicate given as a set of indices,
\* in the order of the sequence.
RECURSIVE Filter(_, _, _)
Filter(seq, keep, i) ==
    IF i > Len(seq) THEN <<>>
    ELSE (IF i \in keep THEN <<seq[i]>> ELSE <<>>) \o Filter(seq, keep, i + 1)

\* list.sort(key=...): the stable ascending sort of seq by the keys, keys[i]
\* being the key of seq[i].
SortAscending(seq, keys) ==
    LET n == Len(seq)
        rank(i) == 1 + Cardinality({j \in 1..n :
                        keys[j] < keys[i] \/ (keys[j] = keys[i] /\ j < i)})
    IN [k \in 1..n |-> seq[CHOOSE i \in 1..n : rank(i) = k]]

\* list.sort(key=..., reverse=True): descending, equal keys keep their order.
SortKeepingOrder(seq, keys) == seq

SortDescending(seq, keys) ==
    LET n == Len(seq)
        rank(i) == 1 + Cardinality({j \in 1..n :
                        keys[j] > keys[i] \/ (keys[j] = keys[i] /\ j < i)})
    IN [k \in 1..n |-> seq[CHOOSE i \in 1..n : rank(i) = k]]

\* seq[:limit] for limit >= 0
TakeAll(seq, limit) == seq

Take(seq, limit) == SubSeq(seq, 1, IF limit < Len(seq) THEN limit ELSE Len(seq))

\* The WHERE clause search_facilities builds from the entities.
FacilityCondition(f, entities) ==
    /\ Truthy(entities, "facility_type") => f.facility_type = entities.facility_type
    /\ Truthy(entities, "status") => f.status = entities.status
    /\ Truthy(entities, "needs_oxygen") => f.has_oxygen
    /\ Truthy(entities, "needs_power") => f.has_power
    /\ Truthy(entities, "needs_trauma") => f.trauma_available > 0
    /\ Truthy(entities, "min_capacity") => f.available_beds >= entities.min_capacity
    /\ Truthy(entities, "district") =>
          \/ Contains(lower(f.district), lower(entities.district))
          \/ Contains(lower(f.governorate), lower(entities.district))

\* The record with its distance from the requester, when both coordinates are given.
WithDistance(rec, user_lat, user_lon) ==
    IF user_lat # None /\ user_lon # None
    THEN rec @@ ("distance_km" :>
                    round2(geodesic(user_lat[1], user_lon[1], rec.latitude, rec.longitude)))
    ELSE rec

\* The radius filter of search_facilities and search_resources.
WithinRadiusStrict(x, entities) == GetDistance(x, 0) < Radius(entities)

WithinRadius(x, entities) == GetDistance(x, 0) <= Radius(entities)

\* The key search_facilities sorts by when a latitude is given.
DistanceSortKey(x) == GetDistance(x, Km(MissingDistanceKm))

search_facilities(db_facilities, entities, user_lat, user_lon, limit) ==
    LET facilities ==
            Filter(db_facilities,
                   {i \in 1..Len(db_facilities) : FacilityCondition(db_facilities[i], entities)}, 1)
        facility_list ==
            [i \in 1..Len(facilities) |-> WithDistance(facilities[i], user_lat, user_lon)]
        by_distance ==
            SortAscending(facility_list,
                          [i \in 1..Len(facility_list) |-> DistanceSortKey(facility_list[i])])
        by_beds ==
            SortDescending(facility_list,
                           [i \in 1..Len(facility_list) |-> facility_list[i].available_beds])
        result ==
            IF user_lat # None
            THEN Filter(by_distance,
                        {i \in 1..Len(by_distance) : WithinRadius(by_distance[i], entities)}, 1)
            ELSE by_beds
    IN Take(result, limit)

\* The WHERE clause of search_resources.
\* The resource filter with the required status of the entities applied.
ResourceConditionWithStatus(r, entities) ==
    /\ Truthy(entities, "resource_type") => r.resource_type = entities.resource_type
    /\ Truthy(entities, "district") => Contains(lower(r.district), lower(entities.district))
    /\ Truthy(entities, "min_capacity") => r.total_capacity >= entities.min_capacity
    /\ Truthy(entities, "status") => r.status = entities.status
    /\ r.status = "available"

ResourceCondition(r, entities) ==
    /\ Truthy(entities, "resource_type") => r.resource_type = entities.resource_type
    /\ Truthy(entities, "district") => Contains(lower(r.district), lower(entities.district))
    /\ Truthy(entities, "min_capacity") => r.total_capacity >= entities.min_capacity
    /\ r.status = "available"

search_resources(db_resources, entities, user_lat, user_lon, limit) ==
    LET resources ==
            Filter(db_resources,
                   {i \in 1..Len(db_resources) : ResourceCondition(db_resources[i], entities)}, 1)
        resource_list ==
            [i \in 1..Len(resources) |->
                WithDistance(resources[i] @@
                    ("available_capacity" :>
                        resources[i].total_capacity - resources[i].current_occupancy),
                    user_lat, user_lon)]
        by_distance ==
            SortAscending(resource_list,
                          [i \in 1..Len(resource_list) |-> DistanceSortKey(resource_list[i])])
        result ==
            IF user_lat # None
            THEN Filter(by_distance,
                        {i \in 1..Len(by_distance) : WithinRadius(by_distance[i], entities)}, 1)
            ELSE resource_list
    IN Take(result, limit)

\* The WHERE clause of get_active_incidents.
IncidentCondition(inc, entities) ==
    /\ inc.is_active
    /\ Truthy(entities, "district") => Contains(lower(inc.district), lower(entities.district))

get_active_incidents(db_incidents, entities, user_lat, user_lon) ==
    LET incidents ==
            Filter(db_incidents,
                   {i \in 1..Len(db_incidents) : IncidentCondition(db_incidents[i], entities)}, 1)
    IN [i \in 1..Len(incidents) |-> WithDistance(incidents[i], user_lat, user_lon)]

\* The number of rows of a table that satisfy a predicate given as a set of indices.
Count(rows) == Cardinality(rows)

RECURSIVE SumOf(_, _)
\* func.sum over a column, values[i] being the column's value in row i.
SumOf(values, i) == IF i > Len(values) THEN 0 ELSE values[i] + SumOf(values, i + 1)

get_statistics(db) ==
    LET F == db.facilities
        R == db.resources
        I == db.incidents
    IN [total_facilities |-> Len(F),
        operational_facilities |->
            Count({i \in 1..Len(F) : F[i].status = "operational"}),
        damaged_facilities |-> Count({i \in 1..Len(F) : F[i].status = "damaged"}),
        total_beds |-> SumOf([i \in 1..Len(F) |-> F[i].total_beds], 1),
        available_beds |-> SumOf([i \in 1..Len(F) |-> F[i].available_beds], 1),
        total_resources |-> Len(R),
        total_shelters |-> Count({i \in 1..Len(R) : R[i].resource_type = "shelter"}),
        active_incidents |-> Count({i \in 1..Len(I) : I[i].is_active})]

\* ------------------------------------------------------------------ context

\* str() of a bool.
YesNo(b) == IF b THEN "Yes" ELSE "No"

\* str() of a float that round(dist, 2) returned, given in hundredths: the
\* shortest decimal, with at least one digit after the point.
FloatStr(hundredths) ==
    LET whole == hundredths \div 100
        frac == hundredths % 100
    IN Str(whole) \o "." \o
       (IF frac % 10 = 0 THEN Str(frac \div 10)
        ELSE IF frac < 10 THEN "0" \o Str(frac) ELSE Str(frac))

\* The text build_context_prompt returns when nothing was retrieved.
NoDataSentinel == "No relevant data found in the database."

\* The "\n".join(parts) of one facility.
FacilityLines(f) ==
    Join("\n",
        <<"- **" \o f.name \o "** (" \o f.facility_type \o ")">>
        \o <<"  Status: " \o f.status>>
        \o (IF "distance_km" \in DOMAIN f
            THEN <<"  Distance: " \o FloatStr(f.distance_km) \o " km">> ELSE <<>>)
        \o <<"  Available beds: " \o Str(f.available_beds) \o "/" \o Str(f.total_beds)>>
        \o (IF f.trauma_available # 0
            THEN <<"  Trauma beds available: " \o Str(f.trauma_available)>> ELSE <<>>)
        \o (IF f.icu_available # 0
            THEN <<"  ICU beds available: " \o Str(f.icu_available)>> ELSE <<>>)
        \o <<"  Power: " \o YesNo(f.has_power) \o ", Oxygen: " \o YesNo(f.has_oxygen)>>
        \o (IF f.ed_wait_time_minutes # 0
            THEN <<"  ED Wait time: " \o Str(f.ed_wait_time_minutes) \o " min">> ELSE <<>>)
        \o (IF f.specialties # <<>>
            THEN <<"  Specialties: " \o Join(", ", f.specialties)>> ELSE <<>>)
        \o (IF f.phone # "" THEN <<"  Contact: " \o f.phone>> ELSE <<>>))

\* The "\n".join(parts) of one resource.
ResourceLines(r) ==
    Join("\n",
        <<"- **" \o r.name \o "** (" \o r.resource_type \o ")">>
        \o <<"  Status: " \o r.status>>
        \o (IF "distance_km" \in DOMAIN r
            THEN <<"  Distance: " \o FloatStr(r.distance_km) \o " km">> ELSE <<>>)
        \o (IF r.total_capacity # 0
            THEN <<"  Capacity: " \o Str(r.current_occupancy) \o "/" \o Str(r.total_capacity)>>
            ELSE <<>>)
        \o (IF r.contact_phone # "" THEN <<"  Contact: " \o r.contact_phone>> ELSE <<>>))

\* The "\n".join(parts) of one incident.
IncidentLines(inc) ==
    Join("\n",
        <<"- **" \o inc.title \o "** (Severity: " \o inc.severity \o ")">>
        \o <<"  Type: " \o inc.incident_type>>
        \o (IF "distance_km" \in DOMAIN inc
            THEN <<"  Distance: " \o FloatStr(inc.distance_km) \o " km">> ELSE <<>>)
        \o (IF inc.roads_affected # <<>>
            THEN <<"  Roads affected: " \o Join(", ", inc.roads_affected)>> ELSE <<>>))

\* How many facilities, resources and incidents the context renders.
MaxContextFacilities == 10

MaxContextResources == 10

MaxContextIncidents == 5

\* The dictionary is empty: `if statistics` is false.
IsEmptyDict(d) == DOMAIN d = {}

\* The list context_parts of build_context_prompt.
ContextParts(facilities, resources, incidents, statistics) ==
    (IF facilities # <<>>
     THEN <<"## Available Health Facilities Data">> \o
          [i \in 1..Len(Take(facilities, MaxContextFacilities)) |-> FacilityLines(facilities[i])]
     ELSE <<>>)
    \o (IF resources # <<>>
        THEN <<"\n## Available Resources Data">> \o
             [i \in 1..Len(Take(resources, MaxContextResources)) |-> ResourceLines(resources[i])]
        ELSE <<>>)
    \o (IF incidents # <<>>
        THEN <<"\n## Active Incidents">> \o
             [i \in 1..Len(Take(incidents, MaxContextIncidents)) |-> IncidentLines(incidents[i])]
        ELSE <<>>)
    \o (IF ~IsEmptyDict(statistics)
        THEN <<"\n## Current Statistics",
               "- Total facilities: " \o Str(statistics.total_facilities),
               "- Operational: " \o Str(statistics.operational_facilities),
               "- Damaged: " \o Str(statistics.damaged_facilities),
               "- Total beds: " \o Str(statistics.total_beds),
               "- Available beds: " \o Str(statistics.available_beds),
               "- Active incidents: " \o Str(statistics.active_incidents)>>
        ELSE <<>>)

build_context_prompt_unguarded(facilities, resources, incidents, statistics) ==
    Join("\n", ContextParts(facilities, resources, incidents, statistics))

build_context_prompt(facilities, resources, incidents, statistics) ==
    LET context_parts == ContextParts(facilities, resources, incidents, statistics)
    IN IF context_parts # <<>> THEN Join("\n", context_parts) ELSE NoDataSentinel

\* ------------------------------------------------------------------ answer generation

ApologyText ==
    "I couldn't find specific data matching your query. "
    \o "Please try refining your search with more specific terms, "
    \o "or check the available categories: hospitals, clinics, shelters, ambulances."

\* The template that echoes the context.
ContextAnswer(context) ==
    "Based on the available data for your query:\n\n" \o context \o "\n\n"
    \o "Note: This response was generated from direct data retrieval. "
    \o "For more detailed analysis, ensure the AI model API key is configured."

\* The test by which the fallback recognises that nothing was retrieved.
IsNoDataContext(context) == Contains(context, "No relevant data found")

generate_fallback_response(query, context, language) ==
    IF IsNoDataContext(context) THEN ApologyText ELSE ContextAnswer(context)

\* Confidence scores, in hundredths.
ConfidenceNoKey == 75

ConfidenceRichContext == 90

ConfidencePoorContext == 70

ConfidenceAfterFailure == 60

\* The context length above which a remote answer has the higher confidence.
RichContextLength == 200

PlaceholderKey == "your_openai_api_key_here"

\* not settings.OPENAI_API_KEY or settings.OPENAI_API_KEY == "your_openai_api_key_here"
NotConfigured(key) == key = "" \/ key = PlaceholderKey

\* The confidence of an answer the remote service returned.
RemoteConfidenceByQuery(query, context) ==
    IF Len(query) > RichContextLength THEN ConfidenceRichContext ELSE ConfidencePoorContext

RemoteConfidence(query, context) ==
    IF Len(context) > RichContextLength THEN ConfidenceRichContext ELSE ConfidencePoorContext

\* ------------------------------------------------------------------ records of the store

Facility(name, ftype, status, lat, lon, district, governorate, total, available, icu, trauma, power, oxygen, wait, specialties, phone) ==
    [name |-> name, facility_type |-> ftype, status |-> status,
     latitude |-> lat, longitude |-> lon, district |-> district,
     governorate |-> governorate, total_beds |-> total, available_beds |-> available,
     icu_available |-> icu, trauma_available |-> trauma, has_power |-> power,
     has_oxygen |-> oxygen, ed_wait_time_minutes |-> wait,
     specialties |-> specialties, phone |-> phone]

ResourceRow(name, rtype, status, lat, lon, district, capacity, occupancy, phone) ==
    [name |-> name, resource_type |-> rtype, status |-> status,
     latitude |-> lat, longitude |-> lon, district |-> district,
     total_capacity |-> capacity, current_occupancy |-> occupancy,
     contact_phone |-> phone]

IncidentRow(headline, itype, severity, lat, lon, district, active, roads) ==
    [title |-> headline, incident_type |-> itype, severity |-> severity,
     latitude |-> lat, longitude |-> lon, district |-> district,
     is_active |-> active, roads_affected |-> roads]

FacRamallah ==
    Facility("Ramallah General Hospital", "hospital", "operational", 0, 0,
             "Ramallah", "Ramallah and Al-Bireh", 200, 40, 2, 3, TRUE, TRUE, 15,
             <<"surgery", "trauma">>, "02-2951111")

FacNablus ==
    Facility("Nablus Clinic", "clinic", "damaged", 2, 0,
             "Nablus", "Nablus", 20, 5, 0, 0, FALSE, FALSE, 0, <<>>, "")

FacHebron ==
    Facility("Hebron Field Hospital", "field_hospital", "operational", 20, 1,
             "Hebron", "Hebron", 80, 60, 0, 1, TRUE, FALSE, 0, <<>>, "02-2220000")

\* A facility whose name holds the words of the no-data sentinel.
FacOddName ==
    Facility("No relevant data found Pharmacy", "pharmacy", "reduced_capacity", 1, 0,
             "Ramallah", "Ramallah and Al-Bireh", 0, 5, 0, 0, TRUE, TRUE, 0, <<>>, "")

ResAmbulance ==
    ResourceRow("Ambulance Unit 7", "ambulance", "available", 0, 1, "Ramallah", 0, 0, "059-1000")

ResShelter ==
    ResourceRow("Al-Bireh School Shelter", "shelter", "available", 3, 0, "Al-Bireh", 150, 90, "")

ResWater ==
    ResourceRow("Nablus Water Point", "water_point", "in_use", 2, 0, "Nablus", 0, 0, "")

IncRoad ==
    IncidentRow("Road closure near Huwara", "road_closure", "high", 2, 1, "Nablus", TRUE,
                <<"Route 60">>)

IncFar ==
    IncidentRow("Clashes in Hebron", "security", "critical", 30, 0, "Hebron", TRUE, <<>>)

IncResolved ==
    IncidentRow("Flooding in Jericho", "flood", "low", 1, 1, "Jericho", FALSE, <<>>)

Database(fs, rs, is) == [facilities |-> fs, resources |-> rs, incidents |-> is]

\* Six health centres, more than the sample of a statistical query holds.
HealthCentres ==
    [i \in 1..6 |->
        Facility("Jenin Health Center " \o Str(i), "health_center", "operational", i, 0,
                 "Jenin", "Jenin", 10 * i, i, 0, 0, TRUE, TRUE, 0, <<>>, "")]

\* The stores of the pipeline runs.
Databases ==
    {Database(<<>>, <<>>, <<>>),
     Database(<<FacRamallah, FacNablus, FacHebron>>,
              <<ResAmbulance, ResShelter, ResWater>>,
              <<IncRoad, IncFar, IncResolved>>),
     Database(<<FacOddName, FacNablus>>, <<ResShelter>>, <<>>),
     Database(HealthCentres, <<>>, <<>>)}

\* The sequences without repetition of at most n elements of a set.
RECURSIVE Arrangements(_, _)
Arrangements(S, n) ==
    IF n = 0 THEN {<<>>}
    ELSE LET shorter == Arrangements(S, n - 1)
         IN shorter \cup
            {Append(a, x) : <<a, x>> \in
                {<<a, x>> \in shorter \X S : \A i \in 1..Len(a) : a[i] # x}}

\* The largest number of rows of a table in the retrieval harness.
MaxStoreRecords == 2

\* The stores of the retrieval harness.
HarnessDatabases ==
    {Database(fs, rs, <<IncRoad, IncFar, IncResolved>>) :
        <<fs, rs>> \in Arrangements({FacRamallah, FacNablus, FacHebron}, MaxStoreRecords)
                       \X Arrangements({ResAmbulance, ResShelter, ResWater}, MaxStoreRecords)}

\* The entity dictionaries of the retrieval harness.
HarnessEntities ==
    {EmptyDict,
     Entry("radius_km", 5),
     Put(Entry("radius_km", 0), "status", "operational"),
     Put(Entry("min_capacity", 50), "needs_power", TRUE)}

\* ------------------------------------------------------------------ requests

QueryRequest(query, latitude, longitude, language, max_results) ==
    [query |-> query, latitude |-> latitude, longitude |-> longitude,
     language |-> language, max_results |-> max_results]

\* The requester locations: none, both coordinates, one coordinate only.
Locations == {<<None, None>>, <<Some(0), Some(0)>>, <<Some(0), None>>, <<None, Some(0)>>}

QueryTexts ==
    {"Where is the nearest hospital?",
     "Show hospitals within 5km",
     "Find available ambulances",
     "Find working ambulances",
     "Shelters with capacity for 100 people",
     "How many hospitals are operational?",
     "summary statistics",
     "Is oxygen available, power status?",
     "hello there"}

\* The requests of the pipeline runs.
Requests ==
    {QueryRequest(q, loc[1], loc[2], "en", m) :
        <<q, loc, m>> \in QueryTexts \X Locations \X {1, 10}}

\* The words the texts of the classification harness are made of.
Vocabulary ==
    {"hospital", "Nearest", "status", "ambulances", "how many", "need",
     "distribution", "5km", "Nablus", "zzz"}

RECURSIVE TextsOf(_)
\* The texts of at most n words, separated by single spaces.
TextsOf(n) ==
    IF n = 0 THEN {""}
    ELSE LET shorter == TextsOf(n - 1)
         IN shorter \cup Vocabulary
            \cup {t \o " " \o w : <<t, w>> \in (shorter \ {""}) \X Vocabulary}

\* Texts that name several districts, facility types, numbers and amenities.
ExtractionTexts ==
    {"Clinics in Nablus or Ramallah",
     "Hospital with trauma beds",
     "Field hospital near Jenin",
     "Hospital, clinic or pharmacy open now",
     "Facilities with oxygen supply",
     "Is electricity working in Hebron?",
     "Shelter for 20 people within 3 km or 15km",
     "need 30+ beds and 12 ambulances",
     "room for 1 person or 20 people",
     "km 5 away",
     "Powerful generator 3.5KM from Al-Bireh",
     "Hospitals in Beirut area",
     "What is the status of hospitals?"}

HarnessTexts ==
    TextsOf(MaxWords) \cup QueryTexts \cup ExtractionTexts \cup {"Show facilities within 10km"}

\* ------------------------------------------------------------------ state

VARIABLES
    db,             \* the record store: three tables, each in retrieval order
    api_key,        \* settings.OPENAI_API_KEY
    request,        \* the QueryRequest of the run
    user_id,        \* the requester's identifier, None when anonymous
    pc,             \* where the run is
    query_type,     \* process_query's locals ...
    entities,
    facilities,
    resources,
    incidents,
    statistics,
    context,
    answer,
    confidence,
    calls,          \* the retrievers the run has invoked
    llm,            \* the remote call: not_called, pending, ok or how it failed
    llm_text,       \* the text the remote service returned
    store_failed,   \* a query of the store has raised
    session,        \* the objects added to the session and not yet committed
    audit,          \* what became of the run's audit entry
    query_logs,     \* the committed rows of query_logs, the audit sink
    response,       \* the QueryResponse process_query returned, None before
    raised,         \* the exception that left the request, "" when none
    suspended,      \* the frames of the other runs the event loop holds
    rate_limit_data, \* RateLimitMiddleware: the timestamps recorded for each client
    clock,          \* time.time(), in seconds
    served,         \* what the middleware did with each request, in order
    in_flight       \* the admitted requests whose call_next has not returned

vars ==
    <<db, api_key, request, user_id, pc, query_type, entities, facilities, resources,
      incidents, statistics, context, answer, confidence, calls, llm, llm_text,
      store_failed, session, audit, query_logs, response, raised, suspended,
      rate_limit_data, clock, served, in_flight>>

\* The state of RateLimitMiddleware.
limiter == <<rate_limit_data, clock, served, in_flight>>

\* The state of the pipeline runs.
pipeline ==
    <<db, api_key, request, user_id, pc, query_type, entities, facilities, resources,
      incidents, statistics, context, answer, confidence, calls, llm, llm_text,
      store_failed, session, audit, query_logs, response, raised, suspended>>

\* request.client.host, "unknown" without a client address.
Clients == {"10.0.0.7", "unknown"}

\* The middleware has received no request: rate_limit_data is a defaultdict,
\* an empty list for every client.
LimiterIdle ==
    /\ rate_limit_data = [c \in Clients |-> <<>>]
    /\ clock = 0
    /\ served = <<>>
    /\ in_flight = {}

\* What process_query computes, before it has run.
FreshOutputs ==
    /\ facilities = <<>>
    /\ resources = <<>>
    /\ incidents = <<>>
    /\ statistics = EmptyDict
    /\ context = ""
    /\ answer = ""
    /\ confidence = 0
    /\ calls = {}
    /\ llm = "not_called"
    /\ llm_text = ""
    /\ store_failed = FALSE
    /\ session = <<>>
    /\ audit = "none"
    /\ query_logs = <<>>
    /\ response = None
    /\ raised = ""

\* The locals of process_query before it has run.
FreshRun ==
    /\ query_type = ""
    /\ entities = EmptyDict
    /\ FreshOutputs

ApiKeys == {"", PlaceholderKey, "sk-live"}

UserIds == {None, Some("7d44a3f0")}

Init ==
    /\ LimiterIdle
    /\ suspended = <<>>
    /\ db \in Databases
    /\ api_key \in ApiKeys
    /\ request \in Requests
    /\ user_id \in UserIds
    /\ pc = "start"
    /\ FreshRun

\* ------------------------------------------------------------------ process_query

\* Steps 1 and 2: classify the query and extract its entities.
ClassifyAndExtract ==
    /\ pc = "start"
    /\ query_type' = classify_query(request.query)
    /\ entities' = extract_entities(request.query)
    /\ pc' = "facilities"
    /\ UNCHANGED <<limiter, suspended, db, api_key, request, user_id, facilities, resources, incidents,
                   statistics, context, answer, confidence, calls, llm, llm_text,
                   store_failed, session, audit, query_logs, response, raised>>

\* The categories for which process_query calls each retriever.
InvokesFacilities(qtype) ==
    qtype \in {"facility_search", "geographic_search", "status_query"}

InvokesResourcesWithStatus(qtype) ==
    qtype \in {"resource_search", "geographic_search", "status_query"}

InvokesResources(qtype) == qtype \in {"resource_search", "geographic_search"}

InvokesIncidents(qtype) == qtype \in {"geographic_search", "status_query"}

InvokesStatistics(qtype) == qtype = "statistical"

\* The limit of the facility sample of a statistical query.
SampleLimit == 5

\* The retriever process_query is about to await, "" when it skips this step.
AwaitedRetriever ==
    IF pc = "facilities" /\ InvokesFacilities(query_type) THEN "search_facilities"
    ELSE IF pc = "resources" /\ InvokesResources(query_type) THEN "search_resources"
    ELSE IF pc = "incidents" /\ InvokesIncidents(query_type) THEN "get_active_incidents"
    ELSE IF pc = "statistics" /\ InvokesStatistics(query_type) THEN "get_statistics"
    ELSE ""

RetrieveFacilities ==
    /\ pc = "facilities"
    /\ IF InvokesFacilities(query_type)
       THEN /\ facilities' = search_facilities(db.facilities, entities, request.latitude,
                                               request.longitude, request.max_results)
            /\ calls' = calls \cup {"search_facilities"}
       ELSE UNCHANGED <<facilities, calls>>
    /\ pc' = "resources"
    /\ UNCHANGED <<limiter, suspended, db, api_key, request, user_id, query_type, entities, resources,
                   incidents, statistics, context, answer, confidence, llm, llm_text,
                   store_failed, session, audit, query_logs, response, raised>>

RetrieveResources ==
    /\ pc = "resources"
    /\ IF InvokesResources(query_type)
       THEN /\ resources' = search_resources(db.resources, entities, request.latitude,
                                             request.longitude, request.max_results)
            /\ calls' = calls \cup {"search_resources"}
       ELSE UNCHANGED <<resources, calls>>
    /\ pc' = "incidents"
    /\ UNCHANGED <<limiter, suspended, db, api_key, request, user_id, query_type, entities, facilities,
                   incidents, statistics, context, answer, confidence, llm, llm_text,
                   store_failed, session, audit, query_logs, response, raised>>

RetrieveIncidents ==
    /\ pc = "incidents"
    /\ IF InvokesIncidents(query_type)
       THEN /\ incidents' = get_active_incidents(db.incidents, entities, request.latitude,
                                                 request.longitude)
            /\ calls' = calls \cup {"get_active_incidents"}
       ELSE UNCHANGED <<incidents, calls>>
    /\ pc' = "statistics"
    /\ UNCHANGED <<limiter, suspended, db, api_key, request, user_id, query_type, entities, facilities,
                   resources, statistics, context, answer, confidence, llm, llm_text,
                   store_failed, session, audit, query_logs, response, raised>>

\* A statistical query: the aggregate statistics, then a sample of facilities.
RetrieveStatistics ==
    /\ pc = "statistics"
    /\ IF InvokesStatistics(query_type)
       THEN /\ statistics' = get_statistics(db)
            /\ facilities' = search_facilities(db.facilities, entities, request.latitude,
                                               request.longitude, SampleLimit)
            /\ calls' = calls \cup {"get_statistics", "search_facilities"}
       ELSE UNCHANGED <<statistics, facilities, calls>>
    /\ pc' = "context"
    /\ UNCHANGED <<limiter, suspended, db, api_key, request, user_id, query_type, entities, resources,
                   incidents, context, answer, confidence, llm, llm_text,
                   store_failed, session, audit, query_logs, response, raised>>

\* What an exception raised by db.execute does to the run: nothing catches it
\* in the retrievers or in process_query.
StoreErrorSwallowed(at) ==
    [pc |-> IF at = "facilities" THEN "resources"
            ELSE IF at = "resources" THEN "incidents"
            ELSE IF at = "incidents" THEN "statistics" ELSE "context",
     raised |-> ""]

StoreErrorEffect(at) == [pc |-> "raising", raised |-> "StoreError"]

\* db.execute raises inside the retriever the run awaits.
StoreFails ==
    /\ AwaitedRetriever # ""
    /\ store_failed' = TRUE
    /\ calls' = calls \cup {AwaitedRetriever}
    /\ pc' = StoreErrorEffect(pc).pc
    /\ raised' = StoreErrorEffect(pc).raised
    /\ UNCHANGED <<limiter, suspended, db, api_key, request, user_id, query_type, entities, facilities,
                   resources, incidents, statistics, context, answer, confidence, llm,
                   llm_text, session, audit, query_logs, response>>

\* Steps 4 and 5 without a configured key: the context, then the fallback answer.
AnswerWithoutKey ==
    /\ pc = "context"
    /\ NotConfigured(api_key)
    /\ context' = build_context_prompt(facilities, resources, incidents, statistics)
    /\ answer' = generate_fallback_response(request.query, context', request.language)
    /\ confidence' = ConfidenceNoKey
    /\ pc' = "respond"
    /\ UNCHANGED <<limiter, suspended, db, api_key, request, user_id, query_type, entities, facilities,
                   resources, incidents, statistics, calls, llm, llm_text, store_failed,
                   session, audit, query_logs, response, raised>>

\* Steps 4 and 5 with a configured key: the context, then the remote call is awaited.
CallRemote ==
    /\ pc = "context"
    /\ ~NotConfigured(api_key)
    /\ context' = build_context_prompt(facilities, resources, incidents, statistics)
    /\ llm' = "pending"
    /\ pc' = "await_llm"
    /\ UNCHANGED <<limiter, suspended, db, api_key, request, user_id, query_type, entities, facilities,
                   resources, incidents, statistics, answer, confidence, calls, llm_text,
                   store_failed, session, audit, query_logs, response, raised>>

\* The texts the remote service answers with.
RemoteTexts == {"Two hospitals nearby have free trauma beds."}

\* The ways the remote call fails: the client's timeout, an API or network
\* error, and a response without choices.
RemoteFailures == {"timeout", "error", "malformed"}

\* response.choices[0].message.content arrives.
RemoteReturns ==
    /\ pc = "await_llm"
    /\ \E text \in RemoteTexts :
        /\ llm_text' = text
        /\ answer' = text
    /\ llm' = "ok"
    /\ confidence' = RemoteConfidence(request.query, context)
    /\ pc' = "respond"
    /\ UNCHANGED <<limiter, suspended, db, api_key, request, user_id, query_type, entities, facilities,
                   resources, incidents, statistics, context, calls, store_failed,
                   session, audit, query_logs, response, raised>>

\* `except Exception` catches the failure.
CaughtUnlessTimeout(failure) == failure \in RemoteFailures \ {"timeout"}

Caught(failure) == failure \in RemoteFailures

\* The awaited call raises.
RemoteRaises ==
    /\ pc = "await_llm"
    /\ \E failure \in RemoteFailures :
        /\ llm' = failure
        /\ IF Caught(failure)
           THEN /\ answer' = generate_fallback_response(request.query, context,
                                                        request.language)
                /\ confidence' = ConfidenceAfterFailure
                /\ pc' = "respond"
                /\ UNCHANGED raised
           ELSE /\ raised' = "LLMError"
                /\ pc' = "raising"
                /\ UNCHANGED <<answer, confidence>>
    /\ UNCHANGED <<limiter, suspended, db, api_key, request, user_id, query_type, entities, facilities,
                   resources, incidents, statistics, context, calls, llm_text,
                   store_failed, session, audit, query_logs, response>>

\* f.get("distance_km")
OptionalDistance(x) == IF "distance_km" \in DOMAIN x THEN Some(x.distance_km) ELSE None

FacilityMarker(f) ==
    [latitude |-> f.latitude, longitude |-> f.longitude, label |-> f.name,
     type |-> f.facility_type, status |-> f.status,
     details |-> [available_beds |-> f.available_beds, has_power |-> f.has_power,
                  has_oxygen |-> f.has_oxygen, distance_km |-> OptionalDistance(f)]]

ResourceMarker(r) ==
    [latitude |-> r.latitude, longitude |-> r.longitude, label |-> r.name,
     type |-> r.resource_type, status |-> r.status,
     details |-> [capacity |-> r.total_capacity, occupancy |-> r.current_occupancy,
                  distance_km |-> OptionalDistance(r)]]

\* The markers in the other order: resources first.
MapMarkersResourcesFirst(fs, rs) ==
    [i \in 1..Len(rs) |-> ResourceMarker(rs[i])] \o [i \in 1..Len(fs) |-> FacilityMarker(fs[i])]

\* Step 6: one marker per facility, then one per resource.
MapMarkers(fs, rs) ==
    [i \in 1..Len(fs) |-> FacilityMarker(fs[i])] \o [i \in 1..Len(rs) |-> ResourceMarker(rs[i])]

\* uuid.uuid4(): no two calls return the same value.
Uuids == {"0b1e6c52", "c4a9d7e1"}

\* The identifiers the suspended runs have drawn.
DrawnUuids ==
    {suspended[i].response[1].query_id :
        i \in {j \in 1..Len(suspended) : suspended[j].response # None}}

\* int((time.time() - start_time) * 1000)
ElapsedValues == {3, 250}

\* An entry that takes the default of its id column instead of query_id.
QueryLogDefaultId(query_id, elapsed_ms) ==
    [id |-> "default", user_id |-> user_id, query_text |-> request.query,
     query_type |-> query_type, entities |-> entities, response_text |-> answer,
     confidence_score |-> confidence, response_time_ms |-> elapsed_ms]

QueryLog(query_id, elapsed_ms) ==
    [id |-> query_id, user_id |-> user_id, query_text |-> request.query,
     query_type |-> query_type, entities |-> entities, response_text |-> answer,
     confidence_score |-> confidence, response_time_ms |-> elapsed_ms]

QueryResponse(query_id, elapsed_ms) ==
    [query_id |-> query_id, query |-> request.query, answer |-> answer,
     confidence_score |-> confidence,
     data_sources |-> <<[name |-> "Health Facilities DB", record_count |-> Len(facilities)],
                        [name |-> "Resources DB", record_count |-> Len(resources)],
                        [name |-> "Incidents DB", record_count |-> Len(incidents)]>>,
     map_markers |-> MapMarkers(facilities, resources),
     statistics |-> IF IsEmptyDict(statistics) THEN None ELSE Some(statistics),
     response_time_ms |-> elapsed_ms, language |-> request.language]

\* What the try block around the audit entry can end as: the entry is added,
\* or QueryLog(...) raises, or db.add raises; both exceptions are caught.
AuditAttempts == {"added", "construct_failed", "add_failed"}

\* Step 6 to the end of process_query: markers, elapsed time, the audit entry,
\* the response.
Respond ==
    /\ pc = "respond"
    /\ \E query_id \in Uuids \ DrawnUuids, elapsed_ms \in ElapsedValues, attempt \in AuditAttempts :
        /\ audit' = attempt
        /\ session' = IF attempt = "added"
                      THEN Append(session, QueryLog(query_id, elapsed_ms))
                      ELSE session
        /\ response' = Some(QueryResponse(query_id, elapsed_ms))
    /\ pc' = "returned"
    /\ UNCHANGED <<limiter, suspended, db, api_key, request, user_id, query_type, entities, facilities,
                   resources, incidents, statistics, context, answer, confidence, calls,
                   llm, llm_text, store_failed, query_logs, raised>>

\* ------------------------------------------------------------------ get_db

\* After the endpoint returned: session.commit() succeeds.
Commit ==
    /\ pc = "returned"
    /\ query_logs' = query_logs \o session
    /\ session' = <<>>
    /\ audit' = IF audit = "added" THEN "committed" ELSE audit
    /\ pc' = "done"
    /\ UNCHANGED <<limiter, suspended, db, api_key, request, user_id, query_type, entities, facilities,
                   resources, incidents, statistics, context, answer, confidence, calls,
                   llm, llm_text, store_failed, response, raised>>

\* session.commit() raises while it writes the audit entry: get_db rolls back
\* and raises the exception again.
CommitFails ==
    /\ pc = "returned"
    /\ session # <<>>
    /\ session' = <<>>
    /\ audit' = "commit_failed"
    /\ raised' = "CommitError"
    /\ pc' = "failed"
    /\ UNCHANGED <<limiter, suspended, db, api_key, request, user_id, query_type, entities, facilities,
                   resources, incidents, statistics, context, answer, confidence, calls,
                   llm, llm_text, store_failed, query_logs, response>>

\* An exception left process_query: get_db rolls back and raises it again.
Rollback ==
    /\ pc = "raising"
    /\ session' = <<>>
    /\ pc' = "failed"
    /\ UNCHANGED <<limiter, suspended, db, api_key, request, user_id, query_type, entities, facilities,
                   resources, incidents, statistics, context, answer, confidence, calls,
                   llm, llm_text, store_failed, audit, query_logs, response, raised>>

\* ------------------------------------------------------------------ request validation

\* QueryRequest.query: min_length and max_length.
MinQueryLength == 3

MaxQueryLength == 1000

\* QueryRequest.max_results: ge and le.
MinMaxResults == 1

MaxMaxResults == 50

\* A body that passes only the constraints of the query text.
ValidQueryTextOnly(req) ==
    Len(req.query) >= MinQueryLength /\ Len(req.query) <= MaxQueryLength

\* The body satisfies the field constraints of QueryRequest.
ValidQueryRequest(req) ==
    /\ Len(req.query) >= MinQueryLength
    /\ Len(req.query) <= MaxQueryLength
    /\ req.max_results >= MinMaxResults
    /\ req.max_results <= MaxMaxResults

\* The body of a POST /query is validated against QueryRequest before
\* submit_query is called: a body that fails is answered with the validation
\* error and the endpoint does not run.
ValidateRequest ==
    /\ pc = "received"
    /\ IF ValidQueryRequest(request)
       THEN /\ pc' = "start"
            /\ UNCHANGED raised
       ELSE /\ pc' = "rejected"
            /\ raised' = "RequestValidationError"
    /\ UNCHANGED <<limiter, suspended, db, api_key, request, user_id, query_type, entities,
                   facilities, resources, incidents, statistics, context, answer,
                   confidence, calls, llm, llm_text, store_failed, session, audit,
                   query_logs, response>>

\* The status of the HTTP response, None while the request is in progress: 422
\* for a validation error, 500 for an exception that leaves the endpoint or
\* get_db (the application registers no exception handler), 200 otherwise.
HttpStatus ==
    IF pc = "rejected" THEN Some(422)
    ELSE IF pc = "failed" THEN Some(500)
    ELSE IF pc = "done" THEN Some(200)
    ELSE None

\* ------------------------------------------------------------------ rate limiting

\* settings.RATE_LIMIT_UNAUTHENTICATED and settings.RATE_LIMIT_AUTHENTICATED,
\* requests per minute, set low: the defaults are 60 and 200.
RateLimitUnauthenticated == 1

RateLimitAuthenticated == 2

\* The length of the window, in seconds.
WindowSeconds == 60

\* The paths that are not rate limited.
ExemptPaths == {"/health", "/docs", "/openapi.json", "/"}

\* request.url.path
Paths == {"/api/v1/query", "/health"}

\* The limit of a request, by the presence of an authorization header.
LimitFor(has_auth) ==
    IF has_auth THEN RateLimitAuthenticated ELSE RateLimitUnauthenticated

\* The timestamps of a client that are later than window_start.
Cleaned(stamps, window_start) ==
    LET Recent(t) == t > window_start IN SelectSeq(stamps, Recent)

\* A test that lets one request more than the limit through.
OverLimitStrict(n, limit) == n > limit

\* len(self.rate_limit_data[client_ip]) >= limit
OverLimit(n, limit) == n >= limit

\* The seconds time.time() advances by between two requests, and the last
\* reading of the clock.
TickSeconds == 30

MaxClock == 90

\* The number of requests the middleware receives.
MaxRequests == 3

\* time.time() advances.
Tick ==
    /\ clock + TickSeconds <= MaxClock
    /\ clock' = clock + TickSeconds
    /\ UNCHANGED <<rate_limit_data, served, in_flight, pipeline>>

\* What the middleware did with a request, and the X-RateLimit-Remaining of
\* its response once call_next has returned.
Served(client_ip, path, has_auth, now, outcome, limit) ==
    [client |-> client_ip, path |-> path, has_auth |-> has_auth, time |-> now,
     outcome |-> outcome, limit |-> limit, remaining |-> None]

\* dispatch up to its await: an exempt path is passed on; otherwise the
\* client's old timestamps are dropped, and the request is answered 429 when
\* the client is at its limit, or recorded and passed on.
Dispatch ==
    /\ Len(served) < MaxRequests
    /\ \E client_ip \in Clients, path \in Paths, has_auth \in BOOLEAN :
        LET limit == LimitFor(has_auth)
            now == clock
            kept == Cleaned(rate_limit_data[client_ip], now - WindowSeconds)
        IN  IF path \in ExemptPaths
            THEN /\ served' = Append(served, Served(client_ip, path, has_auth, now, "passed", None))
                 /\ UNCHANGED <<rate_limit_data, in_flight>>
            ELSE IF OverLimit(Len(kept), limit)
            THEN /\ rate_limit_data' = [rate_limit_data EXCEPT ![client_ip] = kept]
                 /\ served' = Append(served,
                                     Served(client_ip, path, has_auth, now, "429",
                                            Some(limit)))
                 /\ UNCHANGED in_flight
            ELSE /\ rate_limit_data' =
                        [rate_limit_data EXCEPT ![client_ip] = Append(kept, now)]
                 /\ served' = Append(served,
                                     Served(client_ip, path, has_auth, now, "admitted",
                                            Some(limit)))
                 /\ in_flight' = in_flight \cup {Len(served) + 1}
    /\ UNCHANGED <<clock, pipeline>>

\* call_next has returned for an admitted request: dispatch sets the headers
\* of the response from the client's timestamps as they are now.
Complete ==
    /\ \E k \in in_flight :
        /\ served' = [served EXCEPT ![k].remaining =
                         Some(served[k].limit[1] - Len(rate_limit_data[served[k].client]))]
        /\ in_flight' = in_flight \ {k}
    /\ UNCHANGED <<rate_limit_data, clock, pipeline>>

\* ------------------------------------------------------------------ event loop

\* The frame of the running coroutine: the request's session and everything
\* submit_query and process_query keep in parameters and locals.
Frame ==
    [request |-> request, user_id |-> user_id, pc |-> pc, query_type |-> query_type,
     entities |-> entities, facilities |-> facilities, resources |-> resources,
     incidents |-> incidents, statistics |-> statistics, context |-> context,
     answer |-> answer, confidence |-> confidence, calls |-> calls, llm |-> llm,
     llm_text |-> llm_text, store_failed |-> store_failed, session |-> session,
     audit |-> audit, response |-> response, raised |-> raised]

\* A frame whose entities are kept in one place for all runs.
ResumeSharingEntities(saved, live) == [saved EXCEPT !.entities = live.entities]

\* What a coroutine finds in its frame when it is resumed after another one
\* ran: what it left there.
Resume(saved, live) == saved

\* The running coroutine is at an await, has not begun, or has ended.
Blocked ==
    \/ pc \in {"start", "await_llm", "returned", "raising", "done", "failed"}
    \/ AwaitedRetriever # ""

\* The running coroutine is suspended at its await and the event loop resumes
\* another one that has not ended.
Switch ==
    /\ Blocked
    /\ \E i \in 1..Len(suspended) :
        /\ suspended[i].pc \notin {"done", "failed"}
        /\ LET frame == Resume(suspended[i], Frame) IN
            /\ suspended' = [suspended EXCEPT ![i] = Frame]
            /\ request' = frame.request
            /\ user_id' = frame.user_id
            /\ pc' = frame.pc
            /\ query_type' = frame.query_type
            /\ entities' = frame.entities
            /\ facilities' = frame.facilities
            /\ resources' = frame.resources
            /\ incidents' = frame.incidents
            /\ statistics' = frame.statistics
            /\ context' = frame.context
            /\ answer' = frame.answer
            /\ confidence' = frame.confidence
            /\ calls' = frame.calls
            /\ llm' = frame.llm
            /\ llm_text' = frame.llm_text
            /\ store_failed' = frame.store_failed
            /\ session' = frame.session
            /\ audit' = frame.audit
            /\ response' = frame.response
            /\ raised' = frame.raised
    /\ UNCHANGED <<limiter, db, api_key, query_logs>>

\* ------------------------------------------------------------------ specifications

Retrieve ==
    \/ RetrieveFacilities
    \/ RetrieveResources
    \/ RetrieveIncidents
    \/ RetrieveStatistics
    \/ StoreFails

Next ==
    \/ ClassifyAndExtract
    \/ Retrieve
    \/ AnswerWithoutKey
    \/ CallRemote
    \/ RemoteReturns
    \/ RemoteRaises
    \/ Respond
    \/ Commit
    \/ CommitFails
    \/ Rollback

\* The pipeline runs: one request from its arrival to the end of its session.
Spec == Init /\ [][Next]_vars

\* The classification harness: classify_query and extract_entities on the
\* texts of at most MaxWords words.
InitClassify ==
    /\ LimiterIdle
    /\ suspended = <<>>
    /\ db = Database(<<>>, <<>>, <<>>)
    /\ api_key = ""
    /\ \E text \in HarnessTexts : request = QueryRequest(text, None, None, "en", 10)
    /\ user_id = None
    /\ pc = "start"
    /\ FreshRun

SpecClassify == InitClassify /\ [][ClassifyAndExtract]_vars

\* The retrieval harness: the retrievers on the stores of at most
\* MaxStoreRecords rows a table.
InitSearch ==
    /\ LimiterIdle
    /\ suspended = <<>>
    /\ db \in HarnessDatabases
    /\ api_key = ""
    /\ \E loc \in Locations, limit \in {1, 2} :
          request = QueryRequest("", loc[1], loc[2], "en", limit)
    /\ user_id = None
    /\ pc = "facilities"
    /\ query_type \in {"geographic_search", "statistical"}
    /\ entities \in HarnessEntities
    /\ FreshOutputs

SpecSearch == InitSearch /\ [][Retrieve]_vars

\* The pipeline runs whose every awaited call completes: the event loop
\* resumes the run when the store answers, and the remote call ends with an
\* answer or with an exception (the client bounds it by its request timeout).
LiveDatabases ==
    {Database(<<>>, <<>>, <<>>),
     Database(<<FacRamallah, FacNablus>>, <<ResAmbulance, ResShelter>>,
              <<IncRoad, IncResolved>>),
     Database(<<FacOddName, FacNablus>>, <<ResShelter>>, <<>>)}

\* process_query at its first await: steps 1 and 2 are synchronous code, so the
\* run is taken up with the category and the entities already computed.
InitLive ==
    /\ LimiterIdle
    /\ suspended = <<>>
    /\ db \in LiveDatabases
    /\ api_key \in ApiKeys
    /\ \E q \in QueryTexts, loc \in {<<None, None>>, <<Some(0), Some(0)>>} :
          /\ request = QueryRequest(q, loc[1], loc[2], "en", 10)
          /\ query_type = classify_query(q)
          /\ entities = extract_entities(q)
    /\ user_id = None
    /\ pc = "facilities"
    /\ FreshOutputs

\* The awaits of process_query and of the request's session.
NextLive ==
    \/ Retrieve
    \/ AnswerWithoutKey
    \/ CallRemote
    \/ RemoteReturns
    \/ RemoteRaises
    \/ Respond
    \/ Commit
    \/ CommitFails
    \/ Rollback

\* The event loop resumes every coroutine whose await has completed, and both
\* the store driver and the remote client complete every await, with a result
\* or with an exception (the client's own request timeout included).
LiveSpec == InitLive /\ [][NextLive]_vars /\ WF_vars(NextLive)

\* The context harness: build_context_prompt on lists longer than it renders.
\* The longest list of facilities or resources, and of incidents, it is given.
MaxRetrieved == 11

MaxIncidentsRetrieved == 6

\* n facilities, resources and incidents of distinct names, as the retrievers
\* return them.
RetrievedFacilities(n) ==
    [i \in 1..n |->
        Facility("Tubas Health Center " \o Str(i), "health_center", "operational", i, 0,
                 "Tubas", "Tubas", 10 * i, i, 0, 0, TRUE, TRUE, 0, <<>>, "")]

RetrievedResources(n) ==
    [i \in 1..n |->
        ResourceRow("Tubas Shelter " \o Str(i), "shelter", "available", i, 0, "Tubas",
                    100, i, "")
        @@ ("available_capacity" :> 100 - i)]

RetrievedIncidents(n) ==
    [i \in 1..n |->
        IncidentRow("Road closure " \o Str(i), "road_closure", "medium", i, 0, "Tubas",
                    TRUE, <<>>)]

\* The list lengths of the context harness: none, one, and the two longest.
ListSizes(longest) == {0, 1, longest - 1, longest}

InitContext ==
    /\ LimiterIdle
    /\ suspended = <<>>
    /\ db = Database(<<>>, <<>>, <<>>)
    /\ api_key = ""
    /\ request = QueryRequest("", None, None, "en", 50)
    /\ user_id = None
    /\ pc = "context"
    /\ entities = EmptyDict
    /\ \E nf \in ListSizes(MaxRetrieved), nr \in ListSizes(MaxRetrieved),
          ni \in ListSizes(MaxIncidentsRetrieved) :
          /\ facilities = RetrievedFacilities(nf)
          /\ resources = RetrievedResources(nr)
          /\ incidents = RetrievedIncidents(ni)
    /\ statistics \in {EmptyDict, get_statistics(db)}
    /\ query_type = IF IsEmptyDict(statistics) THEN "geographic_search" ELSE "statistical"
    /\ context = ""
    /\ answer = ""
    /\ confidence = 0
    /\ calls = {}
    /\ llm = "not_called"
    /\ llm_text = ""
    /\ store_failed = FALSE
    /\ session = <<>>
    /\ audit = "none"
    /\ query_logs = <<>>
    /\ response = None
    /\ raised = ""

SpecContext == InitContext /\ [][AnswerWithoutKey]_vars

\* Several requests in the event loop at once.

\* The number of runs beside the running one.
MaxSuspended == 1

\* The requests of the concurrent runs: a geographic search with a location, a
\* resource search and a statistical query.
TaskRequests ==
    {QueryRequest("Show hospitals within 5km", Some(0), Some(0), "en", 10),
     QueryRequest("Find available ambulances", None, None, "en", 10),
     QueryRequest("summary statistics", None, None, "en", 10)}

\* The frame of a request that has arrived and not begun.
NewFrame(req, uid) ==
    [request |-> req, user_id |-> uid, pc |-> "start", query_type |-> "",
     entities |-> EmptyDict, facilities |-> <<>>, resources |-> <<>>,
     incidents |-> <<>>, statistics |-> EmptyDict, context |-> "", answer |-> "",
     confidence |-> 0, calls |-> {}, llm |-> "not_called", llm_text |-> "",
     store_failed |-> FALSE, session |-> <<>>, audit |-> "none", response |-> None,
     raised |-> ""]

\* The store of the concurrent runs.
TaskDatabase ==
    Database(<<FacRamallah, FacNablus>>, <<ResAmbulance, ResShelter>>,
             <<IncRoad, IncResolved>>)

InitTasks ==
    /\ LimiterIdle
    /\ db = TaskDatabase
    /\ api_key \in {"", "sk-live"}
    /\ request \in TaskRequests
    /\ user_id \in UserIds
    /\ pc = "start"
    /\ FreshRun
    /\ suspended \in [1..MaxSuspended -> {NewFrame(req, None) : req \in TaskRequests}]

NextTasks ==
    \/ Next
    \/ Switch

\* The requests of several users run interleaved at their awaits, over one
\* store and one query_logs table.
SpecTasks == InitTasks /\ [][NextTasks]_vars

\* Requests at the boundary.

RECURSIVE Repeated(_, _)
\* The string of n copies of s.
Repeated(s, n) ==
    IF n = 0 THEN ""
    ELSE LET half == Repeated(s, n \div 2)
         IN  IF n % 2 = 0 THEN half \o half ELSE half \o half \o s

\* Bodies whose query text is around the limits of its length: two and three
\* characters, an ordinary query, and one character more than the maximum.
BoundaryTexts ==
    {"ab", "bed", "Find available ambulances", Repeated("a", MaxQueryLength + 1)}

\* Values of max_results at and around its limits.
BoundaryMaxResults == {MinMaxResults - 1, MinMaxResults, MaxMaxResults, MaxMaxResults + 1}

InitBoundary ==
    /\ LimiterIdle
    /\ suspended = <<>>
    /\ db = TaskDatabase
    /\ api_key \in {"", "sk-live"}
    /\ \E q \in BoundaryTexts, n \in BoundaryMaxResults :
          request = QueryRequest(q, None, None, "en", n)
    /\ user_id = None
    /\ pc = "received"
    /\ FreshRun

NextBoundary ==
    \/ ValidateRequest
    \/ Next

\* A POST /query from the arrival of its body to the HTTP response.
SpecBoundary == InitBoundary /\ [][NextBoundary]_vars

\* Requests through the middleware.

InitRateLimit ==
    /\ LimiterIdle
    /\ suspended = <<>>
    /\ db = Database(<<>>, <<>>, <<>>)
    /\ api_key = ""
    /\ request = QueryRequest("bed", None, None, "en", 10)
    /\ user_id = None
    /\ pc = "start"
    /\ FreshRun

NextRateLimit ==
    \/ Tick
    \/ Dispatch
    \/ Complete

\* The requests of several clients pass through RateLimitMiddleware, one
\* dispatch running up to its await while others wait for call_next.
SpecRateLimit == InitRateLimit /\ [][NextRateLimit]_vars

\* ------------------------------------------------------------------ claims

\* The run has passed every retrieval step and the store has answered each.
RetrievalDone ==
    ~store_failed /\ pc \in {"context", "await_llm", "respond", "returned", "done", "failed"}

\* generate_llm_response has returned.
AnswerDone == pc \in {"respond", "returned", "done"}

\* The requester gave both coordinates.
Located == request.latitude # None /\ request.longitude # None

\* Every record of the list carries a distance of at most r and none is
\* nearer than a record before it.
WithinAndAscending(list, r) ==
    /\ \A i \in 1..Len(list) :
          "distance_km" \in DOMAIN list[i] /\ list[i].distance_km <= r
    /\ \A i \in 1..Len(list), j \in 1..Len(list) :
          i < j => list[i].distance_km <= list[j].distance_km

\* C1: with a requester location, every facility and every resource returned
\* carries a distance of at most R (the extracted radius_km, 50 km when
\* absent) and each list is non-decreasing in distance.
C1_WithinRadiusAscending ==
    Located =>
        LET r == IF "radius_km" \in DOMAIN entities THEN 100 * entities.radius_km
                 ELSE 5000
        IN WithinAndAscending(facilities, r) /\ WithinAndAscending(resources, r)

\* C1 witness: two facilities were returned in distance order, the farther
\* one, first in the store, exactly at the extracted radius of 5 km.
C1_Witness ==
    /\ Located /\ pc = "context"
    /\ "radius_km" \in DOMAIN entities /\ entities.radius_km = 5
    /\ Len(facilities) = 2
    /\ facilities[1].distance_km = 0 /\ facilities[2].distance_km = 500
    /\ db.facilities[1] = FacNablus
    /\ resources # <<>>

\* The number of keywords of a category that occur in the lower-cased text.
KeywordHits(c, text) ==
    Cardinality({i \in 1..Len(QUERY_TYPES[c]) : Contains(lower(text), QUERY_TYPES[c][i])})

\* The place of a category in the priority order.
Priority(c) ==
    CHOOSE i \in 1..5 :
        <<"facility_search", "resource_search", "status_query", "geographic_search",
          "statistical">>[i] = c

C3_CategoryInFixedSet ==
    pc # "start" =>
        query_type \in {"facility_search", "resource_search", "status_query",
                        "geographic_search", "statistical"}

\* C3 witness: the empty text has been classified.
C3_Witness == pc # "start" /\ request.query = "" /\ query_type = "facility_search"

\* C4: the retrievers invoked are those of the category; a list whose
\* retriever was not invoked is empty; a statistical run holds statistics and
\* at most 5 facilities; the other categories hold no statistics.
C4_RetrieversFollowCategory ==
    RetrievalDone =>
        /\ calls =
             (IF query_type = "facility_search" THEN {"search_facilities"}
              ELSE IF query_type = "resource_search" THEN {"search_resources"}
              ELSE IF query_type = "status_query"
                   THEN {"search_facilities", "get_active_incidents"}
              ELSE IF query_type = "geographic_search"
                   THEN {"search_facilities", "search_resources", "get_active_incidents"}
              ELSE {"get_statistics", "search_facilities"})
        /\ "search_facilities" \notin calls => facilities = <<>>
        /\ "search_resources" \notin calls => resources = <<>>
        /\ "get_active_incidents" \notin calls => incidents = <<>>
        /\ query_type = "statistical" => Len(facilities) <= 5 /\ DOMAIN statistics # {}
        /\ query_type # "statistical" => DOMAIN statistics = {}
        /\ response # None =>
              /\ (response[1].statistics = None) <=> (query_type # "statistical")
              /\ response[1].data_sources[1].record_count = Len(facilities)
              /\ response[1].data_sources[2].record_count = Len(resources)
              /\ response[1].data_sources[3].record_count = Len(incidents)

\* C4 witness: a statistical run over six matching facilities returned five
\* of them and its statistics.
C4_Witness ==
    /\ pc = "done" /\ query_type = "statistical"
    /\ Len(db.facilities) = 6 /\ Len(facilities) = 5
    /\ response[1].statistics # None
    /\ resources = <<>> /\ incidents = <<>>

\* C5: the answer and its confidence are one of four outcomes: no key, the
\* fallback with 0.75 and no remote call; a remote answer with 0.9 over a
\* context of more than 200 characters, 0.7 otherwise; a failed remote call,
\* the fallback with 0.6 and no exception; the confidence is within [0, 1].
C5_FourOutcomes ==
    /\ raised # "LLMError"
    /\ AnswerDone =>
        /\ confidence \in 0..100
        /\ raised = ""
        /\ \/ /\ api_key \in {"", "your_openai_api_key_here"}
              /\ llm = "not_called"
              /\ answer = generate_fallback_response(request.query, context, request.language)
              /\ confidence = 75
           \/ /\ api_key \notin {"", "your_openai_api_key_here"}
              /\ llm = "ok"
              /\ answer = llm_text
              /\ confidence = (IF Len(context) > 200 THEN 90 ELSE 70)
           \/ /\ api_key \notin {"", "your_openai_api_key_here"}
              /\ llm \in {"timeout", "error", "malformed"}
              /\ answer = generate_fallback_response(request.query, context, request.language)
              /\ confidence = 60

\* C5 witness: the remote service answered over a context of more than 200
\* characters.
C5_Witness ==
    /\ pc = "respond" /\ llm = "ok" /\ answer = llm_text /\ llm_text # ""
    /\ Len(context) > 200 /\ confidence = 90

\* C6: the fallback answers with the apology exactly when the context is the
\* sentinel, and echoes every other context.
C6_ApologyIffSentinel ==
    (AnswerDone /\ llm # "ok") =>
        /\ (answer = ApologyText) <=> (context = NoDataSentinel)
        /\ context # NoDataSentinel => answer = ContextAnswer(context)

\* C7 as claimed: whatever the category, three empty lists give the sentinel
\* context and, without a key, the apology with confidence 0.75.
C7_EmptyListsGiveApology ==
    (RetrievalDone /\ pc # "context"
        /\ facilities = <<>> /\ resources = <<>> /\ incidents = <<>>) =>
        /\ context = NoDataSentinel
        /\ (AnswerDone /\ api_key \in {"", "your_openai_api_key_here"})
              => answer = ApologyText /\ confidence = 75

\* C7 as amended: the same for the categories that fetch no statistics.
C7_EmptyListsGiveApologyUnlessStatistical ==
    (RetrievalDone /\ pc # "context" /\ query_type # "statistical"
        /\ facilities = <<>> /\ resources = <<>> /\ incidents = <<>>) =>
        /\ context = NoDataSentinel
        /\ (AnswerDone /\ api_key \in {"", "your_openai_api_key_here"})
              => answer = ApologyText /\ confidence = 75

\* C7 witness: a geographic run over a store with rows retrieved nothing
\* and was answered by the apology.
C7_Witness ==
    /\ pc = "done" /\ query_type = "geographic_search"
    /\ db.facilities # <<>>
    /\ facilities = <<>> /\ resources = <<>> /\ incidents = <<>>
    /\ api_key = "" /\ context = NoDataSentinel
    /\ answer = ApologyText /\ confidence = 75

\* C8: a failure to construct, add or commit the audit entry leaves the
\* response with the caller and raises nothing.
C8_AuditFailureInvisible ==
    audit \in {"construct_failed", "add_failed", "commit_failed"} =>
        response # None /\ raised = ""

C10_StoreFailureIsFatal ==
    /\ store_failed =>
          /\ pc \in {"raising", "failed"}
          /\ raised = "StoreError"
          /\ response = None /\ answer = "" /\ llm = "not_called"
          /\ session = <<>> /\ query_logs = <<>> /\ audit = "none"
    /\ (~store_failed /\ pc \in {"context", "await_llm", "respond", "returned", "done"})
          => raised = ""
    /\ pc = "done" => response # None

\* C10 witness: the store failed in a later retrieval, after the facilities
\* had been fetched.
C10_Witness ==
    /\ store_failed /\ pc = "failed" /\ raised = "StoreError"
    /\ facilities # <<>> /\ "search_resources" \in calls

\* How build_context_prompt writes the name of a record.
Marker(name) == "**" \o name \o "**"

\* Where a text first occurs in a string, 0 when it does not occur.
Position(s, kw) ==
    LET at == {i \in 1..(Len(s) - Len(kw) + 1) : SubSeq(s, i, i + Len(kw) - 1) = kw}
    IN IF at = {} THEN 0 ELSE CHOOSE i \in at : \A j \in at : i <= j

\* The names of the first n records of the list occur in the text in the
\* order of the list, and no name of a later record occurs in it.
FirstRendered(text, names, n) ==
    /\ \A i \in 1..Len(names) : (Position(text, Marker(names[i])) > 0) <=> (i <= n)
    /\ \A i \in 1..Len(names), j \in 1..Len(names) :
          (i < j /\ j <= n) =>
              Position(text, Marker(names[i])) < Position(text, Marker(names[j]))

\* C11: the context renders the first 10 facilities, the first 10 resources
\* and the first 5 incidents in the order given and no later record, and it
\* is the sentinel exactly when the four inputs are all empty.
C11_RendersFirstRecordsOrSentinel ==
    pc = "respond" =>
        /\ FirstRendered(context, [i \in 1..Len(facilities) |-> facilities[i].name], 10)
        /\ FirstRendered(context, [i \in 1..Len(resources) |-> resources[i].name], 10)
        /\ FirstRendered(context, [i \in 1..Len(incidents) |-> incidents[i].title], 5)
        /\ (context = "No relevant data found in the database.")
              <=> (/\ facilities = <<>> /\ resources = <<>> /\ incidents = <<>>
                   /\ statistics = EmptyDict)

\* C11 witness: a context built from 11 facilities, 11 resources and 6
\* incidents, in which the last record of each list does not occur.
C11_Witness ==
    /\ pc = "respond"
    /\ Len(facilities) = 11 /\ Len(resources) = 11 /\ Len(incidents) = 6
    /\ Position(context, Marker(facilities[10].name)) > 0
    /\ Position(context, Marker(facilities[11].name)) = 0
    /\ Position(context, Marker(resources[11].name)) = 0
    /\ Position(context, Marker(incidents[5].title)) > 0
    /\ Position(context, Marker(incidents[6].title)) = 0

\* The distance search_facilities attaches to a store record, in hundredths of
\* a kilometre, for a requester who gave both coordinates.
DistanceFrom(rec) ==
    round2(geodesic(request.latitude[1], request.longitude[1], rec.latitude, rec.longitude))

\* The radius R of the run, in hundredths of a kilometre.
RequestedRadius ==
    IF "radius_km" \in DOMAIN entities THEN 100 * entities.radius_km ELSE 5000

\* At most limit records are returned, and a stored record among the matching
\* ones that lies within R is returned with its distance, unless limit records
\* at no greater distance are.
NearestWithin(returned, stored, matching, limit) ==
    /\ Len(returned) <= limit
    /\ \A i \in matching :
          DistanceFrom(stored[i]) <= RequestedRadius =>
              \/ \E j \in 1..Len(returned) :
                    /\ returned[j].name = stored[i].name
                    /\ returned[j].distance_km = DistanceFrom(stored[i])
              \/ /\ Len(returned) = limit
                 /\ \A j \in 1..Len(returned) :
                       returned[j].distance_km <= DistanceFrom(stored[i])

\* C12: facility and resource retrieval return at most limit records; with a
\* requester location a matching record within R (R itself and distance 0
\* with radius 0 included) is missing only if limit records at no greater
\* distance are returned.
C12_NearestWithinRadiusUpToLimit ==
    (RetrievalDone /\ query_type = "geographic_search") =>
        /\ Len(facilities) <= request.max_results
        /\ Len(resources) <= request.max_results
        /\ Located =>
              /\ NearestWithin(facilities, db.facilities,
                    {i \in 1..Len(db.facilities) : FacilityCondition(db.facilities[i], entities)},
                    request.max_results)
              /\ NearestWithin(resources, db.resources,
                    {i \in 1..Len(db.resources) : ResourceCondition(db.resources[i], entities)},
                    request.max_results)

\* C12 witness: the requester stands at the coordinates of an operational
\* facility and asks for radius 0: that facility alone is returned, at
\* distance 0, and another facility of the store is not.
C12_Witness ==
    /\ RetrievalDone /\ query_type = "geographic_search" /\ Located
    /\ "radius_km" \in DOMAIN entities /\ entities.radius_km = 0
    /\ Len(db.facilities) = 2
    /\ Len(facilities) = 1
    /\ facilities[1].name = FacRamallah.name /\ facilities[1].distance_km = 0

\* C13: with a requester location, every incident returned carries a distance
\* of at most R, the incidents are in ascending distance order, and there are
\* at most limit of them.
C13_IncidentsWithinRadiusAscendingUpToLimit ==
    (RetrievalDone /\ Located) =>
        /\ WithinAndAscending(incidents, RequestedRadius)
        /\ Len(incidents) <= request.max_results

\* The requester gave neither coordinate.
Unlocated == request.latitude = None /\ request.longitude = None

\* The k-th smallest element of a set of indices.
KthOf(indices, k) == CHOOSE i \in indices : Cardinality({j \in indices : j < i}) = k - 1

\* The smaller of two numbers.
Least(a, b) == IF a < b THEN a ELSE b

\* C14: without a requester location, the facilities returned are the
\* matching ones of largest available_beds, in non-increasing order, none
\* carrying a distance and none dropped but by the limit; the resources
\* returned are the first matching ones in store order, up to the limit.
C14_UnlocatedOrderAndLimit ==
    (RetrievalDone /\ query_type = "geographic_search" /\ Unlocated) =>
        LET limit == request.max_results
            fmatch == {i \in 1..Len(db.facilities) :
                          FacilityCondition(db.facilities[i], entities)}
            rmatch == {i \in 1..Len(db.resources) :
                          ResourceCondition(db.resources[i], entities)}
        IN /\ Len(facilities) = Least(limit, Cardinality(fmatch))
           /\ \A j \in 1..Len(facilities) :
                 /\ "distance_km" \notin DOMAIN facilities[j]
                 /\ \E i \in fmatch : db.facilities[i] = facilities[j]
           /\ \A j \in 1..Len(facilities), k \in 1..Len(facilities) :
                 j < k => facilities[j].available_beds >= facilities[k].available_beds
           /\ \A i \in fmatch :
                 \/ \E j \in 1..Len(facilities) : facilities[j] = db.facilities[i]
                 \/ \A j \in 1..Len(facilities) :
                       facilities[j].available_beds >= db.facilities[i].available_beds
           /\ Len(resources) = Least(limit, Cardinality(rmatch))
           /\ \A j \in 1..Len(resources) :
                 /\ "distance_km" \notin DOMAIN resources[j]
                 /\ resources[j].name = db.resources[KthOf(rmatch, j)].name

\* C14 witness: two facilities returned in the reverse of their store order,
\* the one with more available beds first, and two resources in store order.
C14_Witness ==
    /\ RetrievalDone /\ query_type = "geographic_search" /\ Unlocated
    /\ Len(facilities) = 2 /\ Len(resources) = 2
    /\ facilities[1] = db.facilities[2] /\ facilities[2] = db.facilities[1]
    /\ facilities[1].available_beds > facilities[2].available_beds
    /\ resources[1].name = db.resources[1].name

\* classify_query and extract_entities have returned.
Extracted == pc # "start"

\* The gazetteer entries that occur in the lower-cased text, by their index.
DistrictsNamed(text) ==
    {i \in 1..Len(westbank_districts) : Contains(lower(text), westbank_districts[i])}

\* C15: when the text names several districts, the district stored is the
\* first of them in gazetteer order, in title case.
C15_FirstDistrictWins ==
    (Extracted /\ DistrictsNamed(request.query) # {}) =>
        /\ "district" \in DOMAIN entities
        /\ entities.district = title(westbank_districts[KthOf(DistrictsNamed(request.query), 1)])

\* C16 as stated: 'Show hospitals within 5km' gives radius_km = 5.0, no
\* facility subtype, and the category geographic_search.
C16_HospitalsWithin5kmNoSubtype ==
    (Extracted /\ request.query = "Show hospitals within 5km") =>
        /\ "radius_km" \in DOMAIN entities /\ entities.radius_km = 5
        /\ "facility_type" \notin DOMAIN entities
        /\ query_type = "geographic_search"

\* C16 amended: 'Show hospitals within 5km' gives radius_km = 5.0, the
\* facility subtype hospital, nothing else, and the category geographic_search.
C16_HospitalsWithin5kmSubtypeHospital ==
    (Extracted /\ request.query = "Show hospitals within 5km") =>
        /\ DOMAIN entities = {"radius_km", "facility_type"}
        /\ entities.radius_km = 5
        /\ entities.facility_type = "hospital"
        /\ query_type = "geographic_search"

\* C16 witness: the text has been classified and its entities extracted.
C16_Witness ==
    /\ Extracted /\ request.query = "Show hospitals within 5km"
    /\ "facility_type" \in DOMAIN entities /\ query_type = "geographic_search"

\* The labels of an enumeration that occur in the lower-cased text, written
\* with spaces for underscores.
LabelsNamed(labels, text) ==
    {labels[i] : i \in {j \in 1..Len(labels) :
                          Contains(lower(text), ReplaceChar(labels[j], "_", " "))}}

\* C17: a text that mentions 'hospital' gets a facility subtype: hospital
\* when no other facility label occurs in it, otherwise one of the other
\* labels that occur; with 'field hospital' as the only other label it is
\* field_hospital.
C17_HospitalSetsSubtype ==
    (Extracted /\ Contains(lower(request.query), "hospital")) =>
        LET others == LabelsNamed(FacilityType, request.query) \ {"hospital"}
        IN /\ "facility_type" \in DOMAIN entities
           /\ others = {} => entities.facility_type = "hospital"
           /\ others # {} => entities.facility_type \in others
           /\ others = {"field_hospital"} => entities.facility_type = "field_hospital"
           /\ request.query = "Hospital with trauma beds" =>
                 /\ entities.facility_type = "hospital"
                 /\ "needs_trauma" \in DOMAIN entities /\ entities.needs_trauma = TRUE

\* C17 witness: a text with 'field hospital' was given the subtype
\* field_hospital.
C17_Witness ==
    /\ Extracted /\ request.query = "Field hospital near Jenin"
    /\ entities.facility_type = "field_hospital"

\* Where the numbers of a text start: the first digit of each maximal run of
\* digits.
NumberStarts(s) ==
    {i \in 1..Len(s) : IsDigit(CharAt(s, i)) /\ (i = 1 \/ ~IsDigit(CharAt(s, i - 1)))}

\* The last digit of the number that starts at i.
NumberEnd(s, i) ==
    CHOOSE j \in i..Len(s) :
        /\ \A k \in i..j : IsDigit(CharAt(s, k))
        /\ (j = Len(s) \/ ~IsDigit(CharAt(s, j + 1)))

RECURSIVE DecimalValue(_, _, _, _)
\* The value of the decimal digits s[i..j], added to 10^(j-i+1) times acc.
DecimalValue(s, i, j, acc) ==
    IF i > j THEN acc
    ELSE DecimalValue(s, i + 1, j,
            10 * acc + (CHOOSE d \in 0..9 : CharAt("0123456789", d + 1) = CharAt(s, i)))

\* The value of the number that starts at i.
NumberAt(s, i) == DecimalValue(s, i, NumberEnd(s, i), 0)

\* One of the words follows position j, after white space only.
WordFollows(s, j, words) ==
    \E k \in (j + 1)..Len(s) :
        /\ \A m \in (j + 1)..(k - 1) : CharAt(s, m) \in {" ", "\t", "\n"}
        /\ \E w \in words : k + Len(w) - 1 <= Len(s) /\ SubSeq(s, k, k + Len(w) - 1) = w

\* The numbers of the text that km follows.
NumbersBeforeKm(text) ==
    {i \in NumberStarts(lower(text)) :
        WordFollows(lower(text), NumberEnd(lower(text), i), {"km"})}

\* C18: radius_km is the value of the first number of the text that km
\* follows, and it is absent when there is no such number.
C18_RadiusIsFirstNumberBeforeKm ==
    Extracted =>
        LET numbers == NumbersBeforeKm(request.query)
        IN /\ ("radius_km" \in DOMAIN entities) <=> (numbers # {})
           /\ numbers # {} =>
                 entities.radius_km = NumberAt(lower(request.query), KthOf(numbers, 1))
           /\ request.query = "Show hospitals within 5km" =>
                 "radius_km" \in DOMAIN entities /\ entities.radius_km = 5

\* C18 witness: of the two numbers before km in the text, the first is the
\* radius.
C18_Witness ==
    /\ Extracted /\ request.query = "Shelter for 20 people within 3 km or 15km"
    /\ Cardinality(NumbersBeforeKm(request.query)) = 2
    /\ entities.radius_km = 3

\* The numbers of the text that one of the words follows, a plus sign allowed
\* between.
NumbersBeforeWord(text, words) ==
    LET s == lower(text)
    IN {i \in NumberStarts(s) :
          LET j == NumberEnd(s, i)
          IN \/ WordFollows(s, j, words)
             \/ /\ j + 1 <= Len(s) /\ CharAt(s, j + 1) = "+"
                /\ WordFollows(s, j + 1, words)}

\* The resource subtype is set exactly when a resource label occurs in the
\* text, to a label that occurs.
ResourceSubtypeSet ==
    /\ ("resource_type" \in DOMAIN entities)
          <=> (LabelsNamed(ResourceType, request.query) # {})
    /\ "resource_type" \in DOMAIN entities =>
          entities.resource_type \in LabelsNamed(ResourceType, request.query)

\* C19 as stated: min_capacity is the value of the first number that people,
\* capacity, bed or beds follows, whatever the distance rule found.
C19_CapacityIsFirstNumberBeforeListedWord ==
    Extracted =>
        LET numbers == NumbersBeforeWord(request.query, {"people", "capacity", "bed", "beds"})
        IN numbers # {} =>
              /\ "min_capacity" \in DOMAIN entities
              /\ entities.min_capacity = NumberAt(lower(request.query), KthOf(numbers, 1))

\* C19 amended: min_capacity is the value of the first number that people,
\* person, capacity, bed or beds follows, absent when there is none, whatever
\* the distance rule found; the resource subtype is set when a resource label
\* occurs.
C19_CapacityIsFirstNumberBeforeCapacityWord ==
    Extracted =>
        LET numbers ==
                NumbersBeforeWord(request.query, {"people", "person", "capacity", "bed", "beds"})
        IN /\ ("min_capacity" \in DOMAIN entities) <=> (numbers # {})
           /\ numbers # {} =>
                 entities.min_capacity = NumberAt(lower(request.query), KthOf(numbers, 1))
           /\ ResourceSubtypeSet
           /\ request.query = "Shelters with capacity for 100 people" =>
                 /\ "min_capacity" \in DOMAIN entities /\ entities.min_capacity = 100
                 /\ "resource_type" \in DOMAIN entities /\ entities.resource_type = "shelter"
           /\ request.query = "Shelter for 20 people within 3 km or 15km" =>
                 /\ "min_capacity" \in DOMAIN entities /\ entities.min_capacity = 20
                 /\ "radius_km" \in DOMAIN entities /\ entities.radius_km = 3

\* C19 witness: the first number before a capacity word stands before
\* 'person', and it is the capacity.
C19_Witness ==
    /\ Extracted /\ request.query = "room for 1 person or 20 people"
    /\ entities.min_capacity = 1

\* The key is in the entities exactly when the condition holds, and then with
\* this value.
SetExactlyWhen(key, value, condition) ==
    /\ (key \in DOMAIN entities) <=> condition
    /\ key \in DOMAIN entities => entities[key] = value

\* The lower-cased text of the request contains one of the words.
Mentions(words) == \E w \in words : Contains(lower(request.query), w)

\* C20: needs_oxygen, needs_power and needs_trauma are set, to true, exactly
\* when the text contains oxygen, power or electricity, and trauma; the
\* status is set, to operational, exactly when it contains functional,
\* operational, working or open; otherwise the key is absent.
C20_FlagsExactlyWhenMentioned ==
    Extracted =>
        /\ SetExactlyWhen("needs_oxygen", TRUE, Mentions({"oxygen"}))
        /\ SetExactlyWhen("needs_power", TRUE, Mentions({"power", "electricity"}))
        /\ SetExactlyWhen("needs_trauma", TRUE, Mentions({"trauma"}))
        /\ SetExactlyWhen("status", "operational",
                          Mentions({"functional", "operational", "working", "open"}))
        /\ request.query = "Facilities with oxygen supply" =>
              "needs_oxygen" \in DOMAIN entities /\ entities.needs_oxygen = TRUE

\* C20 witness: a text with 'open' and no amenity word has the status set and
\* no amenity flag.
C20_Witness ==
    /\ Extracted /\ request.query = "Hospital, clinic or pharmacy open now"
    /\ entities.status = "operational"
    /\ {"needs_oxygen", "needs_power", "needs_trauma"} \cap DOMAIN entities = {}

\* The fields a rule of extract_entities matched in the text of the request.
FieldsMatched ==
    LET text == request.query
    IN (IF NumbersBeforeKm(text) # {} THEN {"radius_km"} ELSE {})
       \cup (IF NumbersBeforeWord(text, {"people", "person", "capacity", "bed", "beds"}) # {}
             THEN {"min_capacity"} ELSE {})
       \cup (IF LabelsNamed(FacilityType, text) # {} THEN {"facility_type"} ELSE {})
       \cup (IF LabelsNamed(ResourceType, text) # {} THEN {"resource_type"} ELSE {})
       \cup (IF Mentions({"functional", "operational", "working", "open"})
             THEN {"status"} ELSE {})
       \cup (IF Mentions({"oxygen"}) THEN {"needs_oxygen"} ELSE {})
       \cup (IF Mentions({"power", "electricity"}) THEN {"needs_power"} ELSE {})
       \cup (IF Mentions({"trauma"}) THEN {"needs_trauma"} ELSE {})
       \cup (IF DistrictsNamed(text) # {} THEN {"district"} ELSE {})

C22_StatusAndCountingOutrankFacility ==
    Extracted =>
        /\ request.query = "What is the status of hospitals?" => query_type = "status_query"
        /\ request.query = "How many hospitals are operational?" => query_type = "statistical"

\* The context has been built.
ContextBuilt == pc \in {"await_llm", "respond", "returned", "done"}

\* C23: every field of the statistics given to build_context_prompt is
\* rendered in the context: the text shows the value of each field, so that
\* another value of the field gives another text.
C23_EveryStatisticRendered ==
    (ContextBuilt /\ ~IsEmptyDict(statistics)) =>
        /\ DOMAIN statistics =
              {"total_facilities", "operational_facilities", "damaged_facilities",
               "total_beds", "available_beds", "total_resources", "total_shelters",
               "active_incidents"}
        /\ \A field \in DOMAIN statistics :
              build_context_prompt(facilities, resources, incidents,
                                   [statistics EXCEPT ![field] = statistics[field] + 1])
                  # context

\* A response has been returned.
Returned == response # None

\* The marker carries the record's name, coordinates, subtype and status.
Carries(marker, record, subtype) ==
    /\ marker.label = record.name
    /\ marker.latitude = record.latitude
    /\ marker.longitude = record.longitude
    /\ marker.type = subtype
    /\ marker.status = record.status

\* C24: the map markers of a response are one marker per retrieved facility,
\* in order, followed by one marker per retrieved resource, in order, each
\* carrying its record's name, coordinates, subtype and status; their number
\* is the number of facilities plus the number of resources, whatever
\* incidents were retrieved.
C24_MarkersAreFacilitiesThenResources ==
    Returned =>
        LET markers == response[1].map_markers IN
        /\ Len(markers) = Len(facilities) + Len(resources)
        /\ \A i \in 1..Len(facilities) :
              Carries(markers[i], facilities[i], facilities[i].facility_type)
        /\ \A i \in 1..Len(resources) :
              Carries(markers[Len(facilities) + i], resources[i], resources[i].resource_type)

\* C24 witness: a response of a run that retrieved a facility, a resource and
\* an incident, with two markers.
C24_Witness ==
    /\ Returned
    /\ Len(facilities) >= 1 /\ Len(resources) >= 1 /\ Len(incidents) >= 1
    /\ Len(response[1].map_markers) = Len(facilities) + Len(resources)

\* The frames of all runs: the running one and the suspended ones.
AllFrames == {Frame} \cup {suspended[i] : i \in 1..Len(suspended)}

\* The run of frame f has what it has when it runs alone with the same
\* request, store, key and outcome of the remote call.
AsAlone(f) ==
    LET req == f.request
        limit == IF InvokesStatistics(f.query_type) THEN SampleLimit ELSE req.max_results
    IN
    /\ db = TaskDatabase
    /\ f.query_type = classify_query(req.query)
    /\ f.entities = extract_entities(req.query)
    /\ f.facilities =
          IF InvokesFacilities(f.query_type) \/ InvokesStatistics(f.query_type)
          THEN search_facilities(db.facilities, f.entities, req.latitude, req.longitude,
                                 limit)
          ELSE <<>>
    /\ f.resources =
          IF InvokesResources(f.query_type)
          THEN search_resources(db.resources, f.entities, req.latitude, req.longitude,
                                req.max_results)
          ELSE <<>>
    /\ f.incidents =
          IF InvokesIncidents(f.query_type)
          THEN get_active_incidents(db.incidents, f.entities, req.latitude, req.longitude)
          ELSE <<>>
    /\ f.statistics = IF InvokesStatistics(f.query_type) THEN get_statistics(db)
                      ELSE EmptyDict
    /\ f.context = build_context_prompt(f.facilities, f.resources, f.incidents,
                                        f.statistics)
    /\ f.answer = IF f.llm = "ok" THEN f.llm_text
                  ELSE generate_fallback_response(req.query, f.context, req.language)
    /\ f.confidence = IF f.llm = "not_called" THEN ConfidenceNoKey
                      ELSE IF f.llm = "ok" THEN RemoteConfidence(req.query, f.context)
                      ELSE ConfidenceAfterFailure

\* The rows of query_logs with the identifier of the response of frame f.
RowsOf(f) == {i \in 1..Len(query_logs) : query_logs[i].id = f.response[1].query_id}

\* query_logs holds the audit entry of the run of frame f, once and as the run
\* wrote it.
OwnEntryKept(f) ==
    /\ Cardinality(RowsOf(f)) = 1
    /\ \A i \in RowsOf(f) :
        /\ query_logs[i].query_text = f.request.query
        /\ query_logs[i].user_id = f.user_id
        /\ query_logs[i].query_type = f.query_type
        /\ query_logs[i].entities = f.entities
        /\ query_logs[i].response_text = f.answer
        /\ query_logs[i].confidence_score = f.confidence
        /\ query_logs[i].response_time_ms = f.response[1].response_time_ms

\* The response of frame f gives the answer, the confidence, the record counts,
\* the markers and the statistics of its run.
ReturnsItsOwn(f) ==
    LET r == f.response[1] IN
    /\ r.query = f.request.query
    /\ r.answer = f.answer
    /\ r.confidence_score = f.confidence
    /\ r.data_sources[1].record_count = Len(f.facilities)
    /\ r.data_sources[2].record_count = Len(f.resources)
    /\ r.data_sources[3].record_count = Len(f.incidents)
    /\ r.map_markers = MapMarkers(f.facilities, f.resources)
    /\ r.statistics = IF IsEmptyDict(f.statistics) THEN None ELSE Some(f.statistics)

\* C25: of the runs interleaved at their awaits over one store, each one has,
\* when it builds its response, the category, entities, record lists, context,
\* answer and confidence it has when it runs alone; the response it returned
\* is made of them; and each one whose audit entry was committed has this
\* entry in query_logs, once and unaltered, whatever the other runs did before
\* and after.
C25_RunsAreIsolated ==
    \A f \in AllFrames :
        /\ f.pc = "respond" => AsAlone(f)
        /\ f.response # None => ReturnsItsOwn(f)
        /\ f.audit = "committed" => OwnEntryKept(f)

\* C25 witness: a run has returned and committed its audit entry while the run
\* of another request, which began before, is suspended at its remote call.
C25_Witness ==
    /\ pc = "done" /\ audit = "committed" /\ Len(query_logs) = 1
    /\ Len(suspended) = 1
    /\ suspended[1].pc = "await_llm"
    /\ suspended[1].request # request
    /\ suspended[1].entities # entities
    /\ ReturnsItsOwn(Frame) /\ OwnEntryKept(Frame)

\* The request is malformed: its query text is shorter than 3 or longer than
\* 1000 characters, or its max_results is outside 1..50.
Malformed ==
    \/ Len(request.query) < 3
    \/ Len(request.query) > 1000
    \/ request.max_results < 1
    \/ request.max_results > 50

\* No step of the pipeline has run: nothing classified, retrieved, generated,
\* returned or written to the audit table.
PipelineUntouched ==
    /\ query_type = "" /\ entities = EmptyDict
    /\ calls = {} /\ facilities = <<>> /\ resources = <<>> /\ incidents = <<>>
    /\ IsEmptyDict(statistics)
    /\ context = "" /\ answer = "" /\ llm = "not_called"
    /\ response = None /\ session = <<>> /\ audit = "none" /\ query_logs = <<>>

\* C26: a malformed request is answered with the validation error, status
\* 422, before any step of the pipeline runs: nothing is retrieved and no
\* audit entry is written; a request that fails on the store is answered with
\* another status.
C26_MalformedRejectedBeforePipeline ==
    /\ (Malformed /\ pc # "received") =>
          /\ pc = "rejected"
          /\ raised = "RequestValidationError"
          /\ HttpStatus = Some(422)
          /\ PipelineUntouched
    /\ (store_failed /\ HttpStatus # None) =>
          /\ raised = "StoreError"
          /\ HttpStatus # Some(422)
    /\ ~Malformed => HttpStatus # Some(422)

\* C26 witness: a request whose text is well formed and whose max_results is
\* 51 has been rejected.
C26_Witness ==
    /\ pc = "rejected" /\ HttpStatus = Some(422)
    /\ request.query = "Find available ambulances" /\ request.max_results = 51
    /\ PipelineUntouched

\* Exactly one of the requester's coordinates is supplied.
OneCoordinate == (request.latitude = None) # (request.longitude = None)

\* C27: with only the latitude or only the longitude supplied, retrieval
\* does what it does without a requester location: no facility and no
\* resource carries a distance, none is dropped but by the limit, and the
\* facilities are in non-increasing order of available_beds.
C27_OneCoordinateAsNoLocation ==
    (RetrievalDone /\ query_type = "geographic_search" /\ OneCoordinate) =>
        LET limit == request.max_results
            fmatch == {i \in 1..Len(db.facilities) :
                          FacilityCondition(db.facilities[i], entities)}
            rmatch == {i \in 1..Len(db.resources) :
                          ResourceCondition(db.resources[i], entities)}
        IN /\ Len(facilities) = Least(limit, Cardinality(fmatch))
           /\ Len(resources) = Least(limit, Cardinality(rmatch))
           /\ \A j \in 1..Len(facilities) : "distance_km" \notin DOMAIN facilities[j]
           /\ \A j \in 1..Len(resources) : "distance_km" \notin DOMAIN resources[j]
           /\ \A j \in 1..Len(facilities), k \in 1..Len(facilities) :
                 j < k => facilities[j].available_beds >= facilities[k].available_beds

\* process_query has returned its response and the session is not yet
\* committed.
JustReturned == pc = "returned" /\ response # None

\* The audit entry agrees with the response and records the category and the
\* entities of the run.
AgreesWithResponse(entry) ==
    /\ entry.id = response[1].query_id
    /\ entry.query_text = response[1].query
    /\ entry.confidence_score = response[1].confidence_score
    /\ entry.response_text = response[1].answer
    /\ entry.response_time_ms = response[1].response_time_ms
    /\ entry.query_type = query_type
    /\ entry.entities = entities

\* C28 as stated: whenever process_query returns a response the session holds
\* exactly one audit entry, added after the answer was generated, and the
\* entry agrees with the response.
C28_ExactlyOneAgreeingEntry ==
    /\ JustReturned => (Len(session) = 1 /\ AgreesWithResponse(session[1]))
    /\ pc \in {"start", "facilities", "resources", "incidents", "statistics", "context",
               "await_llm", "respond"} => session = <<>>

\* C28 amended: whenever process_query returns a response the session holds at
\* most one audit entry, added after the answer was generated: exactly one
\* when constructing and adding it succeeded, and it agrees with the response;
\* none when one of them raised, and the response is returned all the same.
C28_OneAgreeingEntryUnlessAddFailed ==
    /\ JustReturned =>
          /\ audit \in AuditAttempts
          /\ audit = "added" => (Len(session) = 1 /\ AgreesWithResponse(session[1]))
          /\ audit # "added" => session = <<>>
    /\ pc \in {"start", "facilities", "resources", "incidents", "statistics", "context",
               "await_llm", "respond"} => session = <<>>

\* C28 witness: a run with extracted entities has returned and its entry is in
\* the session.
C28_Witness ==
    /\ JustReturned /\ audit = "added" /\ Len(session) = 1
    /\ ~IsEmptyDict(entities)
    /\ AgreesWithResponse(session[1])

\* The entities without the required status.
WithoutStatus(e) == [k \in DOMAIN e \ {"status"} |-> e[k]]

\* The names of the stored resources that are not available and the titles of
\* the stored incidents that are not active.
Unavailable == {db.resources[i].name : i \in {j \in 1..Len(db.resources) : db.resources[j].status # "available"}}

Inactive == {db.incidents[i].title : i \in {j \in 1..Len(db.incidents) : ~db.incidents[j].is_active}}

\* C29: every resource retrieved has status available, whatever the entities:
\* the result is the one the entities without their required status give, and
\* no resource of another status is in the result, in the context or among
\* the map markers; every incident retrieved is active, and no inactive one is
\* in the result or in the context.
C29_OnlyAvailableResourcesAndActiveIncidents ==
    /\ \A j \in 1..Len(resources) :
          resources[j].status = "available" /\ resources[j].name \notin Unavailable
    /\ \A j \in 1..Len(incidents) : incidents[j].title \notin Inactive
    /\ (RetrievalDone /\ InvokesResources(query_type)) =>
          resources = search_resources(db.resources, WithoutStatus(entities),
                                       request.latitude, request.longitude,
                                       request.max_results)
    /\ ContextBuilt =>
          \A name \in Unavailable \cup Inactive : ~Contains(context, name)
    /\ Returned =>
          \A i \in 1..Len(response[1].map_markers) :
              response[1].map_markers[i].label \notin Unavailable

\* C29 witness: a resource search that requires the status operational has
\* returned the available ambulance over a store that holds a water point in
\* use, and its marker.
C29_Witness ==
    /\ Returned /\ query_type = "resource_search"
    /\ Truthy(entities, "status") /\ entities.status = "operational"
    /\ "Nablus Water Point" \in Unavailable
    /\ Len(resources) >= 1
    /\ Len(response[1].map_markers) = Len(resources)

\* The requests of client c that the middleware admitted, as positions of
\* served.
AdmittedOf(c) ==
    {k \in 1..Len(served) : served[k].client = c /\ served[k].outcome = "admitted"}

\* The largest element of a non-empty set of numbers.
Greatest(S) == CHOOSE k \in S : \A j \in S : j <= k

\* The number of elements of a sequence equal to t.
Occurrences(seq, t) == Cardinality({i \in 1..Len(seq) : seq[i] = t})

\* C30: for every client, the admitted requests with a timestamp within the
\* last 60 seconds are never more than the limit of the client's most
\* recently admitted request, the one without an authorization header or the
\* one with it; the timestamps recorded for the client are timestamps of its
\* admitted requests, so a request answered 429 or sent to an exempt path is
\* not recorded; and a request to /, /health, /docs or /openapi.json is passed
\* on, never counted and never rejected.
C30_AdmittedWithinLimitOfLastAdmitted ==
    /\ \A c \in Clients :
        LET adm == AdmittedOf(c)
            recent == {k \in adm : served[k].time > clock - 60}
        IN  /\ adm # {} =>
                  Cardinality(recent) <=
                      (IF served[Greatest(adm)].has_auth THEN RateLimitAuthenticated
                       ELSE RateLimitUnauthenticated)
            /\ \A i \in 1..Len(rate_limit_data[c]) :
                  Occurrences(rate_limit_data[c], rate_limit_data[c][i]) <=
                      Cardinality({k \in adm : served[k].time = rate_limit_data[c][i]})
    /\ \A k \in 1..Len(served) :
          served[k].path \in {"/", "/health", "/docs", "/openapi.json"}
              <=> served[k].outcome = "passed"

\* C30 witness: a client with as many admitted requests in the window as the
\* unauthenticated limit has had a request without an authorization header
\* answered 429, and a request to /health was passed on.
C30_Witness ==
    /\ \E k \in 1..Len(served) :
          /\ served[k].outcome = "429" /\ served[k].client = "10.0.0.7"
          /\ ~served[k].has_auth
    /\ Cardinality({k \in AdmittedOf("10.0.0.7") : served[k].time > clock - 60})
          = RateLimitUnauthenticated
    /\ \E k \in 1..Len(served) : served[k].path = "/health"

====
